---- MODULE Spec2Model ----
(***************************************************************************)
(* Grid algorithms of quentin/aoc24-rust: the bounded grid container       *)
(* (src/etc/grid.rs) and the searches built on it: the turn-weighted maze  *)
(* search (day16), the guard patrol (day06), the garden regions (day12)    *)
(* and the flood fill (day18).                                             *)
(*                                                                         *)
(* Every solver is single-threaded.  Each one owns one variable holding    *)
(* the state of its run (a record whose fields carry the names of the      *)
(* solver's locals), and one specification, which leaves the other         *)
(* solvers' variables alone.                                               *)
(***************************************************************************)
EXTENDS Integers, Sequences, FiniteSets, TLC

VARIABLES day16, day06, day12, day18, etc_grid, day15

vars == <<day16, day06, day12, day18, etc_grid, day15>>

\* The value of a solver that is not running.
Idle == [pc |-> "idle"]

(***************************************************************************)
(* Bounds of the model.                                                    *)
(***************************************************************************)
\* day16: the mazes are all the MazeLines x MazeColumns grids, and the
\* fixtures below.
MazeLines == 2
MazeColumns == 3
\* day16: the recursion depth at which backward_dfs is taken to exhaust the
\* stack (only a traversal whose budget wrapped around gets there).
MaxDepth == 64
\* day06: the maps are the PatrolLines x PatrolColumns grids with at most
\* MaxObstructions obstructions.
PatrolLines == 3
PatrolColumns == 3
MaxObstructions == 4
\* day12: the farms are the FarmLines x FarmColumns grids of two plants, and
\* the farms of the tests.
FarmLines == 2
FarmColumns == 3
\* day18: the maps are the FloodLines x FloodColumns grids with at most
\* MaxCorrupted corrupted cells.
FloodLines == 3
FloodColumns == 3
MaxCorrupted == 4
\* etc/grid.rs: the input texts have at most GridLines rows of at most
\* GridColumns characters each, a grid takes at most MaxWrites writes, and
\* the arrays extracted have at most MaxExtract items.
GridLines == 2
GridColumns == 3
MaxWrites == 2
MaxExtract == 3
\* day06, solve_part2: the maps are the TrialLines x TrialColumns grids with
\* at most TrialObstructions obstructions.
TrialLines == 3
TrialColumns == 4
TrialObstructions == 3
\* etc/grid.rs, Point: an isize is taken to range over -IsizeMax - 1 ..
\* IsizeMax (the negation of its least value overflows, whatever the width),
\* and a Point takes at most MaxRotations rotations.
IsizeMax == 3
MaxRotations == 4
\* day16, dfs alone: the mazes are all the DfsLines x DfsColumns grids, and
\* the fixtures.
DfsLines == 2
DfsColumns == 2
\* day15: the warehouses are the WarehouseLines x WarehouseColumns grids with
\* at most MaxBoxes wide boxes and at most MaxOthers other cells that are
\* not free.
WarehouseLines == 3
WarehouseColumns == 2
MaxBoxes == 1
MaxOthers == 1

(***************************************************************************)
(* src/etc/grid.rs: Point, the directions, Grid.                           *)
(***************************************************************************)
NORTH == <<-1, 0>>
EAST == <<0, 1>>
SOUTH == <<1, 0>>
WEST == <<0, -1>>

\* isize::MIN
IsizeMin == -IsizeMax - 1

\* The unary minus of isize, as it wraps around: -isize::MIN is isize::MIN.
\* Under overflow checks that negation panics (see neg_overflows).
wrapping_neg(value) == IF value = IsizeMin THEN IsizeMin ELSE -value

\* The rotation to the other side.
rotate_90_against_the_clock(d) == <<wrapping_neg(d[2]), d[1]>>

rotate_90_clockwise(d) == <<d[2], wrapping_neg(d[1])>>

rotate_90_counterclockwise(d) == <<wrapping_neg(d[2]), d[1]>>

rotate_180(d) == <<wrapping_neg(d[1]), wrapping_neg(d[2])>>

\* impl Add for Point
PointAdd(p, d) == <<p[1] + d[1], p[2] + d[2]>>

\* Option::None and Option::Some(value)
None == [tag |-> "None"]
Some(value) == [tag |-> "Some", value |-> value]

\* A Grid is [lines, columns, items]; items is row-major, items[i + 1] in
\* the model is items[i] in the code.
\* The test without the columns.
valid_position_any_column(g, pos) == 0 <= pos[1] /\ pos[1] < g.lines

valid_position(g, pos) ==
  /\ 0 <= pos[1] /\ pos[1] < g.lines
  /\ 0 <= pos[2] /\ pos[2] < g.columns

\* The index with the lines for the columns.
unchecked_index_by_lines(g, pos) == g.lines * pos[1] + pos[2]

unchecked_index(g, pos) == g.columns * pos[1] + pos[2]

unchecked_position(g, index) == <<index \div g.columns, index % g.columns>>

checked_index(g, pos) ==
  IF valid_position(g, pos) THEN unchecked_index(g, pos) ELSE -1

\* A panic of the program, with its message.
Panic(message) == [tag |-> "panic", message |-> message]

\* self.items.get(index).unwrap()
items_get_unwrap(g, index) ==
  IF 0 <= index /\ index < Len(g.items) THEN g.items[index + 1]
  ELSE Panic("called Option::unwrap() on a None value")

get(g, pos) ==
  IF valid_position(g, pos) THEN items_get_unwrap(g, unchecked_index(g, pos))
  ELSE None

unchecked_get(g, pos) == items_get_unwrap(g, unchecked_index(g, pos))

\* usize::checked_add_signed.  A usize above the values a grid can hold is
\* kept in two's-complement reading (-1 stands for usize::MAX): the sum
\* overflows when it leaves the range of usize at either end.
checked_add_signed(value, delta) ==
  IF value >= 0
  THEN IF value + delta >= 0 THEN Some(value + delta) ELSE None
  ELSE IF value + delta < 0 THEN Some(value + delta) ELSE None

\* Position::add: None when a coordinate overflows.
PositionAdd(pos, delta) ==
  LET line == checked_add_signed(pos[1], delta[1])
      column == checked_add_signed(pos[2], delta[2])
  IN IF line # None /\ column # None
     THEN Some(<<line.value, column.value>>) ELSE None

\* origin.add(delta).filter(|pos| self.valid_position(pos))
step(g, origin, delta) ==
  LET pos == PositionAdd(origin, delta)
  IN IF pos # None /\ valid_position(g, pos.value) THEN pos ELSE None

\* for_each_neighbour: the positions handed to the callback, in its order.
for_each_neighbour(g, origin) ==
  LET deltas == <<NORTH, EAST, SOUTH, WEST>>
      ahead(i) == step(g, origin, deltas[i])
      Test(i) == ahead(i) # None
  IN [k \in 1 .. Cardinality({i \in 1 .. 4 : Test(i)}) |->
        ahead(CHOOSE i \in 1 .. 4 :
                /\ Test(i)
                /\ Cardinality({j \in 1 .. i : Test(j)}) = k).value]

\* *grid.get_mut(pos).unwrap() = value, for a valid pos
set(g, pos, value) ==
  [g EXCEPT !.items[unchecked_index(g, pos) + 1] = value]

\* map.update(pos, value), for a valid pos: the cell takes the value.
update(g, pos, value) == set(g, pos, value)

\* Grid::new on the rows of the input text (each a sequence of characters).
RECURSIVE Flatten(_)
Flatten(rows) ==
  IF rows = << >> THEN << >> ELSE Head(rows) \o Flatten(Tail(rows))

\* lines.first().unwrap() panics on a text without rows.
GridNew(rows) ==
  IF rows = << >> THEN Panic("called Option::unwrap() on a None value")
  ELSE [lines |-> Len(rows), columns |-> Len(rows[1]), items |-> Flatten(rows)]

\* grid.position(|&c| c == value)
position(g, value) ==
  LET found == {i \in 1 .. Len(g.items) : g.items[i] = value}
  IN IF found = {} THEN None
     ELSE Some(unchecked_position(
                 g, (CHOOSE i \in found : \A j \in found : i <= j) - 1))

\* f, the closure, is a function of the cell values.
new_from(g, f) ==
  [lines |-> g.lines, columns |-> g.columns,
   items |-> [i \in 1 .. Len(g.items) |-> f[g.items[i]]]]

\* The positions of a grid.
Positions(g) == {<<l, c>> : l \in 0 .. g.lines - 1, c \in 0 .. g.columns - 1}

\* impl Mul for Point
PointMul(point, rhs) == <<rhs * point[1], rhs * point[2]>>

ALL_DIRECTIONS ==
  << <<0, 1>>, <<1, 1>>, <<1, 0>>, <<1, -1>>,
     <<0, -1>>, <<-1, -1>>, <<-1, 0>>, <<-1, 1>> >>

\* T::default() of char
Default == "NUL"

\* The loop of step_extract and of deltas_extract, from the i-th displacement
\* on: None at the first position outside the grid, Some(items) after the
\* last.
RECURSIVE extract(_, _, _, _, _)
extract(g, origin, displacements, i, items) ==
  IF i > Len(displacements) THEN Some(items)
  ELSE LET pos == PositionAdd(origin, displacements[i])
       IN IF pos = None THEN None
          ELSE IF ~valid_position(g, pos.value) THEN None
          ELSE IF unchecked_index(g, pos.value) >= Len(g.items)
          THEN Panic("called Option::unwrap() on a None value")
          ELSE extract(g, origin, displacements, i + 1,
                       [items EXCEPT ![i] = get(g, pos.value)])

\* step_extract::<N>(origin, step)
step_extract(g, origin, delta, N) ==
  extract(g, origin, [i \in 1 .. N |-> PointMul(delta, i - 1)], 1,
          [i \in 1 .. N |-> Default])

\* deltas_extract::<N>(origin, deltas)
deltas_extract(g, origin, deltas) ==
  extract(g, origin, deltas, 1, [i \in 1 .. Len(deltas) |-> Default])

\* The input texts: rows of any widths, the character of a cell told by its
\* line and column.
GridWidths == UNION {[1 .. n -> 1 .. GridColumns] : n \in 0 .. GridLines}

GridText(widths) ==
  [l \in 1 .. Len(widths) |->
     [c \in 1 .. widths[l] |-> IF (l + c) % 2 = 0 THEN "a" ELSE "b"]]

\* The closure handed to new_from.
Swap == [c \in {"a", "b"} |-> IF c = "a" THEN "b" ELSE "a"]

\* The positions handed to the operations: those of the largest grid, one
\* line and one column beyond, and two with usize::MAX.
GridOrigins ==
  ((0 .. GridLines) \X (0 .. GridColumns)) \cup {<<-1, 0>>, <<0, -1>>}

GridDeltas == {ALL_DIRECTIONS[i] : i \in DOMAIN ALL_DIRECTIONS}

DeltaPatterns ==
  {SubSeq(ALL_DIRECTIONS, p[1], p[1] + p[2] - 1) :
     p \in {q \in (DOMAIN ALL_DIRECTIONS) \X (1 .. MaxExtract) :
              q[1] + q[2] - 1 <= Len(ALL_DIRECTIONS)}}

\* A program that builds a grid from a text: built keeps the lines and
\* columns of the grid as constructed, result the last operation.
GridStart(input) ==
  [pc |-> "new", input |-> input, g |-> None, built |-> None, writes |-> 0,
   result |-> [op |-> "none"]]

OthersGrid == day16 = Idle /\ day06 = Idle /\ day12 = Idle /\ day18 = Idle /\ day15 = Idle

InitGrid ==
  /\ \E widths \in GridWidths : etc_grid = GridStart(GridText(widths))
  /\ OthersGrid

\* Grid::new(input)
GridNewOp ==
  /\ etc_grid.pc = "new"
  /\ etc_grid' =
       IF etc_grid.input = << >>
       THEN [etc_grid EXCEPT !.pc = "panic",
                             !.result = [op |-> "new",
                                         value |-> GridNew(etc_grid.input)]]
       ELSE LET g == GridNew(etc_grid.input)
            IN [etc_grid EXCEPT !.pc = "ready", !.g = g,
                                !.built = [lines |-> g.lines, columns |-> g.columns],
                                !.result = [op |-> "new"]]
  /\ UNCHANGED <<day16, day06, day12, day18, day15>>

\* grid.new_from(f)
NewFrom ==
  /\ etc_grid.pc = "ready"
  /\ etc_grid' = [etc_grid EXCEPT !.g = new_from(@, Swap),
                                  !.result = [op |-> "new_from"]]
  /\ UNCHANGED <<day16, day06, day12, day18, day15>>

\* if let Some(cell) = grid.get_mut(&pos) { *cell = value }
GetMut ==
  /\ etc_grid.pc = "ready"
  /\ etc_grid.writes < MaxWrites
  /\ \E pos \in GridOrigins, value \in {"a", "b"} :
       LET g == etc_grid.g
           index == unchecked_index(g, pos)
       IN etc_grid' =
            IF ~valid_position(g, pos)
            THEN [etc_grid EXCEPT !.writes = @ + 1,
                                  !.result = [op |-> "get_mut", arg |-> pos,
                                              value |-> None]]
            ELSE IF index >= Len(g.items)
            THEN [etc_grid EXCEPT !.pc = "panic",
                                  !.result = [op |-> "get_mut", arg |-> pos,
                                              value |-> items_get_unwrap(g, index)]]
            ELSE [etc_grid EXCEPT !.writes = @ + 1,
                                  !.g = set(@, pos, value),
                                  !.result = [op |-> "get_mut", arg |-> pos,
                                              value |-> Some(value)]]
  /\ UNCHANGED <<day16, day06, day12, day18, day15>>

NextGrid == GridNewOp \/ NewFrom \/ GetMut

SpecGrid == InitGrid /\ [][NextGrid]_vars

\* The components that a rotation negates.
negated(method, point) ==
  CASE method = "rotate_90_clockwise" -> {point[1]}
    [] method = "rotate_90_counterclockwise" -> {point[2]}
    [] method = "rotate_180" -> {point[1], point[2]}

\* "attempt to negate with overflow", the panic of a build with overflow
\* checks.
neg_overflows(method, point, overflow_checks) ==
  overflow_checks /\ IsizeMin \in negated(method, point)

\* A program that rotates a Point: d is the Point it began with, called the
\* methods it has called on it, one after the other.
PointStart(d, overflow_checks) ==
  [pc |-> "ready", d |-> d, point |-> d, called |-> << >>,
   overflow_checks |-> overflow_checks]

Isize == IsizeMin .. IsizeMax

InitPoint ==
  /\ \E d \in Isize \X Isize, overflow_checks \in BOOLEAN :
       etc_grid = PointStart(d, overflow_checks)
  /\ OthersGrid

\* The call of a method on the Point, its value given.
Rotated(method, value) ==
  IF neg_overflows(method, etc_grid.point, etc_grid.overflow_checks)
  THEN [etc_grid EXCEPT !.pc = "attempt to negate with overflow",
                        !.called = Append(@, method)]
  ELSE [etc_grid EXCEPT !.point = value, !.called = Append(@, method)]

\* point.rotate_90_clockwise()
Rotate90Clockwise ==
  /\ etc_grid.pc = "ready"
  /\ Len(etc_grid.called) < MaxRotations
  /\ etc_grid' = Rotated("rotate_90_clockwise",
                         rotate_90_clockwise(etc_grid.point))
  /\ UNCHANGED <<day16, day06, day12, day18, day15>>

\* point.rotate_90_counterclockwise()
Rotate90Counterclockwise ==
  /\ etc_grid.pc = "ready"
  /\ Len(etc_grid.called) < MaxRotations
  /\ etc_grid' = Rotated("rotate_90_counterclockwise",
                         rotate_90_counterclockwise(etc_grid.point))
  /\ UNCHANGED <<day16, day06, day12, day18, day15>>

\* point.rotate_180()
Rotate180 ==
  /\ etc_grid.pc = "ready"
  /\ Len(etc_grid.called) < MaxRotations
  /\ etc_grid' = Rotated("rotate_180", rotate_180(etc_grid.point))
  /\ UNCHANGED <<day16, day06, day12, day18, day15>>

NextPoint == Rotate90Clockwise \/ Rotate90Counterclockwise \/ Rotate180

SpecPoint == InitPoint /\ [][NextPoint]_vars

\* The operations that read a grid: a program makes one and ends.
Queried(op, arg, value, panics) ==
  [etc_grid EXCEPT !.pc = IF panics THEN "panic" ELSE "done",
                   !.result = [op |-> op, arg |-> arg, value |-> value]]

Step ==
  /\ etc_grid.pc = "ready"
  /\ \E origin \in GridOrigins, delta \in GridDeltas :
       etc_grid' = Queried("step", <<origin, delta>>,
                           step(etc_grid.g, origin, delta), FALSE)
  /\ UNCHANGED <<day16, day06, day12, day18, day15>>

StepExtract ==
  /\ etc_grid.pc = "ready"
  /\ \E origin \in GridOrigins, delta \in GridDeltas, N \in 1 .. MaxExtract :
       LET value == step_extract(etc_grid.g, origin, delta, N)
       IN etc_grid' = Queried("step_extract", <<origin, delta, N>>, value,
                              value.tag = "panic")
  /\ UNCHANGED <<day16, day06, day12, day18, day15>>

DeltasExtract ==
  /\ etc_grid.pc = "ready"
  /\ \E origin \in GridOrigins, deltas \in DeltaPatterns :
       LET value == deltas_extract(etc_grid.g, origin, deltas)
       IN etc_grid' = Queried("deltas_extract", <<origin, deltas>>, value,
                              value.tag = "panic")
  /\ UNCHANGED <<day16, day06, day12, day18, day15>>

UncheckedPosition ==
  /\ etc_grid.pc = "ready"
  /\ \E index \in 0 .. (GridLines + 1) * (GridColumns + 1) :
       etc_grid' = Queried("unchecked_position", index,
                           unchecked_position(etc_grid.g, index), FALSE)
  /\ UNCHANGED <<day16, day06, day12, day18, day15>>

UncheckedIndex ==
  /\ etc_grid.pc = "ready"
  /\ \E pos \in (0 .. GridLines) \X (0 .. GridColumns) :
       etc_grid' = Queried("unchecked_index", pos,
                           unchecked_index(etc_grid.g, pos), FALSE)
  /\ UNCHANGED <<day16, day06, day12, day18, day15>>

UncheckedGet ==
  /\ etc_grid.pc = "ready"
  /\ \E pos \in (0 .. GridLines) \X (0 .. GridColumns) :
       etc_grid' = Queried("unchecked_get", pos,
                           unchecked_get(etc_grid.g, pos),
                           unchecked_index(etc_grid.g, pos) >= Len(etc_grid.g.items))
  /\ UNCHANGED <<day16, day06, day12, day18, day15>>

\* grid.for_each_neighbour(&origin, f): the value is the sequence of the
\* calls of f made, each with its position and its item; the unwrap of
\* unchecked_get panics before the call when the grid has no item at the
\* index of the position.
ForEachNeighbour ==
  /\ etc_grid.pc = "ready"
  /\ \E origin \in GridOrigins :
       LET g == etc_grid.g
           neighbours == for_each_neighbour(g, origin)
           missing == {k \in DOMAIN neighbours :
                         unchecked_index(g, neighbours[k]) >= Len(g.items)}
           calls == IF missing = {} THEN Len(neighbours)
                    ELSE (CHOOSE k \in missing : \A j \in missing : k <= j) - 1
       IN etc_grid' = Queried("for_each_neighbour", origin,
                              [k \in 1 .. calls |->
                                 <<neighbours[k], unchecked_get(g, neighbours[k])>>],
                              missing # {})
  /\ UNCHANGED <<day16, day06, day12, day18, day15>>

NextGridQuery ==
  \/ GridNewOp
  \/ ForEachNeighbour
  \/ Step
  \/ StepExtract
  \/ DeltasExtract
  \/ UncheckedPosition
  \/ UncheckedIndex
  \/ UncheckedGet

SpecGridQuery == InitGrid /\ [][NextGridQuery]_vars

(***************************************************************************)
(* src/days/day16.rs                                                       *)
(***************************************************************************)
Wall == [tag |-> "Wall"]
Unreached == [tag |-> "Unreached"]
Reached(points) == [tag |-> "Reached", points |-> points]

\* u64 values are held in two's-complement reading: an integer n < 0 stands
\* for 2^64 + n.  Every value the model meets is within 2^31 of 0 or of 2^64.
U64Le(a, b) == IF (a < 0) = (b < 0) THEN a <= b ELSE b < 0

\* a - b overflows (a, b not wrapped values themselves: b is 1 or 1001)
U64SubOverflows(a, b) == 0 <= a /\ a < b

\* The three transitions tried by dfs and by backward_dfs, in source order.
Transitions(direction) ==
  << [direction |-> direction, cost |-> 1],
     [direction |-> rotate_90_clockwise(direction), cost |-> 1001],
     [direction |-> rotate_90_counterclockwise(direction), cost |-> 1001] >>

\* The order in which the for loop of dfs takes them.
SourceOrder == <<1, 2, 3>>

\* prepare: '#' is a Wall, '.', 'S' and 'E' are Unreached.
Day16Cell ==
  [c \in {"#", ".", "E", "S"} |-> IF c = "#" THEN Wall ELSE Unreached]

prepare16(input) ==
  LET grid == GridNew(input)
  IN [map |-> new_from(grid, Day16Cell),
      start |-> position(grid, "S").value,
      end |-> position(grid, "E").value]

\* The match with < for <= in the guard of its second arm.
dfs_relax_or_equal(cell, accumulated_points) ==
  IF cell = None \/ cell = Wall THEN None
  ELSE IF cell.tag = "Reached" /\ cell.points < accumulated_points THEN None
  ELSE Reached(accumulated_points)

\* The match without its second arm.
dfs_relax_unpruned(cell, accumulated_points) ==
  IF cell = None \/ cell = Wall THEN None
  ELSE Reached(accumulated_points)

\* The match with the guard of its second arm reversed.
dfs_relax_upwards(cell, accumulated_points) ==
  IF cell = None \/ cell = Wall THEN None
  ELSE IF cell.tag = "Reached" /\ cell.points >= accumulated_points THEN None
  ELSE Reached(accumulated_points)

\* The next cell value of dfs's match on map.get_mut(&at): None when the
\* call returns at once.
dfs_relax(cell, accumulated_points) ==
  IF cell = None \/ cell = Wall THEN None
  ELSE IF cell.tag = "Reached" /\ cell.points <= accumulated_points THEN None
  ELSE Reached(accumulated_points)

\* One call of dfs.  s.stack holds the calls still to be made, the next one
\* first: the three recursive calls of the for loop go on top of it, so each
\* is run to its end before the next, as the recursion does.
dfs(s, accumulated_points, at, direction) ==
  LET new == dfs_relax(get(s.map, at), accumulated_points)
      t == Transitions(direction)
      calls == [i \in 1 .. 3 |->
                  [accumulated_points |-> accumulated_points + t[s.order[i]].cost,
                   at |-> PointAdd(at, t[s.order[i]].direction),
                   direction |-> t[s.order[i]].direction]]
  IN IF new = None THEN s
     ELSE IF at = s.end THEN [s EXCEPT !.map = set(s.map, at, new)]
     ELSE [s EXCEPT !.map = set(s.map, at, new), !.stack = calls \o s.stack]

\* compute_least_distances, after dfs returned.
compute_least_distances(s) ==
  LET cell == get(s.map, s.end)
  IN IF cell.tag = "Reached"
     THEN [s EXCEPT !.best = cell.points, !.pc = "solve_part2", !.direction = 1]
     ELSE [s EXCEPT !.pc = "no path found"]

\* The comparison with < for <=.
accepts_strictly(forward_points, remaining_points, cost) ==
  U64Le(forward_points + 1, remaining_points - cost)

\* if *forward_points <= remaining_points - cost
accepts(forward_points, remaining_points, cost) ==
  U64Le(forward_points, remaining_points - cost)

\* One call of backward_dfs, made at recursion depth `depth`: the iterations
\* of its for loop go on top of s.stack.
backward_dfs(s, remaining_points, at, incoming_direction, depth) ==
  LET t == Transitions(incoming_direction)
      iterations == [i \in 1 .. 3 |->
                       [remaining_points |-> remaining_points,
                        at |-> at,
                        turn_direction |-> t[i].direction,
                        cost |-> t[i].cost,
                        depth |-> depth]]
      on == s.on_a_best_path \cup {at}
  IN IF depth > MaxDepth
     THEN [s EXCEPT !.pc = "stack overflow", !.calls = @ + 1]
     ELSE IF at = s.start
     THEN [s EXCEPT !.on_a_best_path = on, !.calls = @ + 1]
     ELSE [s EXCEPT !.on_a_best_path = on, !.calls = @ + 1,
                    !.stack = iterations \o s.stack]

\* One iteration of the for loop of backward_dfs.  With overflow checks (a
\* debug build) a subtraction that underflows panics; without them (a
\* release build) it wraps.
backward_iteration(s, it) ==
  LET at_turn == PointAdd(it.at, it.turn_direction)
      cell == get(s.map, at_turn)
  IN IF cell.tag # "Reached" THEN s
     ELSE IF U64SubOverflows(it.remaining_points, it.cost) /\ s.overflow_checks
     THEN [s EXCEPT !.pc = "attempt to subtract with overflow"]
     ELSE IF accepts(cell.points, it.remaining_points, it.cost)
     THEN backward_dfs(s, it.remaining_points - it.cost, at_turn,
                       it.turn_direction, it.depth + 1)
     ELSE s

\* The directions of the for loop of solve_part2.
Part2Directions == <<NORTH, EAST, SOUTH, WEST>>

\* The layouts of the bounded mazes: every grid of '#' and '.'.
SmallLayouts == [1 .. MazeLines -> [1 .. MazeColumns -> {"#", "."}]]

\* Two layouts on which the order of the transitions decides what dfs
\* records, and tests::EXAMPLE_INPUT.
Layout4x4 ==
  << <<"#", "#", ".", ".">>,
     <<".", ".", ".", ".">>,
     <<".", ".", "#", ".">>,
     <<"#", ".", ".", ".">> >>

Layout5x5 ==
  << <<".", ".", ".", "#", "#">>,
     <<".", ".", ".", ".", ".">>,
     <<".", "#", ".", "#", ".">>,
     <<".", ".", ".", "#", "#">>,
     <<".", "#", "#", ".", "#">> >>

EXAMPLE_INPUT ==
  << <<"#","#","#","#","#","#","#","#","#","#","#","#","#","#","#">>,
     <<"#",".",".",".",".",".",".",".","#",".",".",".",".","E","#">>,
     <<"#",".","#",".","#","#","#",".","#",".","#","#","#",".","#">>,
     <<"#",".",".",".",".",".","#",".","#",".",".",".","#",".","#">>,
     <<"#",".","#","#","#",".","#","#","#","#","#",".","#",".","#">>,
     <<"#",".","#",".","#",".",".",".",".",".",".",".","#",".","#">>,
     <<"#",".","#",".","#","#","#","#","#",".","#","#","#",".","#">>,
     <<"#",".",".",".",".",".",".",".",".",".",".",".","#",".","#">>,
     <<"#","#","#",".","#",".","#","#","#","#","#",".","#",".","#">>,
     <<"#",".",".",".","#",".",".",".",".",".","#",".","#",".","#">>,
     <<"#",".","#",".","#",".","#","#","#",".","#",".","#",".","#">>,
     <<"#",".",".",".",".",".","#",".",".",".","#",".","#",".","#">>,
     <<"#",".","#","#","#",".","#",".","#",".","#",".","#",".","#">>,
     <<"#","S",".",".","#",".",".",".",".",".","#",".",".",".","#">>,
     <<"#","#","#","#","#","#","#","#","#","#","#","#","#","#","#">> >>

\* A layout with 'S' and 'E' written on two of its cells.
PlaceSE(layout, s, e) ==
  [l \in 1 .. Len(layout) |->
     [c \in 1 .. Len(layout[l]) |->
        IF <<l - 1, c - 1>> = s THEN "S"
        ELSE IF <<l - 1, c - 1>> = e THEN "E"
        ELSE layout[l][c]]]

FreeCells(layout) ==
  {<<l - 1, c - 1>> : l \in 1 .. Len(layout), c \in 1 .. Len(layout[1])}
  \ {p \in {<<l - 1, c - 1>> : l \in 1 .. Len(layout), c \in 1 .. Len(layout[1])} :
       layout[p[1] + 1][p[2] + 1] = "#"}

\* The layouts of the input texts; a text has exactly one 'S' and one 'E' on
\* two cells of its layout that are no walls.
MazeLayouts == SmallLayouts \cup {Layout4x4, Layout5x5}

\* solve_part2 after prepare, about to call compute_least_distances.
Day16Start(input, order, overflow_checks) ==
  LET p == prepare16(input)
  IN [pc |-> "dfs",
      map |-> p.map,
      start |-> p.start,
      end |-> p.end,
      order |-> order,
      overflow_checks |-> overflow_checks,
      stack |-> << [accumulated_points |-> 0, at |-> p.start, direction |-> EAST] >>,
      best |-> 0,
      direction |-> 0,
      on_a_best_path |-> {},
      calls |-> 0,
      relaxed |-> FALSE]

Others16 == day06 = Idle /\ day12 = Idle /\ day18 = Idle /\ etc_grid = Idle /\ day15 = Idle

InitMaze ==
  /\ \E oc \in BOOLEAN :
       \/ \E layout \in MazeLayouts :
            \E s \in FreeCells(layout) :
              \E e \in FreeCells(layout) \ {s} :
                day16 = Day16Start(PlaceSE(layout, s, e), SourceOrder, oc)
       \/ day16 = Day16Start(EXAMPLE_INPUT, SourceOrder, oc)
  /\ Others16

\* The call overwrites a cell that holds Reached(points).
overwrites_reached(s, call) ==
  /\ valid_position(s.map, call.at)
  /\ get(s.map, call.at).tag = "Reached"
  /\ dfs_relax(get(s.map, call.at), call.accumulated_points) # None

\* dfs is called.  relaxed records that some call has overwritten a Reached
\* cell.
Dfs ==
  /\ day16.pc = "dfs"
  /\ day16.stack # << >>
  /\ LET call == Head(day16.stack)
     IN day16' = [dfs([day16 EXCEPT !.stack = Tail(@)],
                      call.accumulated_points, call.at, call.direction)
                    EXCEPT !.relaxed = @ \/ overwrites_reached(day16, call)]
  /\ UNCHANGED <<day06, day12, day18, etc_grid, day15>>

\* The outermost dfs returned: compute_least_distances reads the end cell.
ComputeLeastDistances ==
  /\ day16.pc = "dfs"
  /\ day16.stack = << >>
  /\ day16' = compute_least_distances(day16)
  /\ UNCHANGED <<day06, day12, day18, etc_grid, day15>>

\* solve_part2 calls backward_dfs for its next direction.
SolvePart2 ==
  /\ day16.pc = "solve_part2"
  /\ day16.stack = << >>
  /\ day16.direction <= 4
  /\ day16' = backward_dfs([day16 EXCEPT !.direction = @ + 1],
                           day16.best, day16.end,
                           Part2Directions[day16.direction], 1)
  /\ UNCHANGED <<day06, day12, day18, etc_grid, day15>>

\* The for loop of backward_dfs takes its next iteration.
BackwardDfs ==
  /\ day16.pc = "solve_part2"
  /\ day16.stack # << >>
  /\ day16' = backward_iteration([day16 EXCEPT !.stack = Tail(@)],
                                 Head(day16.stack))
  /\ UNCHANGED <<day06, day12, day18, etc_grid, day15>>

\* solve_part2 returns on_a_best_path.len().
SolvePart2Return ==
  /\ day16.pc = "solve_part2"
  /\ day16.stack = << >>
  /\ day16.direction = 5
  /\ day16' = [day16 EXCEPT !.pc = "done"]
  /\ UNCHANGED <<day06, day12, day18, etc_grid, day15>>

NextMaze ==
  \/ Dfs
  \/ ComputeLeastDistances
  \/ SolvePart2
  \/ BackwardDfs
  \/ SolvePart2Return

SpecMaze == InitMaze /\ [][NextMaze]_vars

\* compute_least_distances alone, on the DfsLines x DfsColumns mazes and the
\* fixtures.  The program is sequential: a call that can be made is made.
DfsLayouts ==
  [1 .. DfsLines -> [1 .. DfsColumns -> {"#", "."}]] \cup {Layout4x4, Layout5x5}

InitDfs ==
  /\ \/ \E layout \in DfsLayouts :
          \E s \in FreeCells(layout) :
            \E e \in FreeCells(layout) \ {s} :
              day16 = Day16Start(PlaceSE(layout, s, e), SourceOrder, TRUE)
     \/ day16 = Day16Start(EXAMPLE_INPUT, SourceOrder, TRUE)
  /\ Others16

NextDfs == Dfs \/ ComputeLeastDistances

SpecDfs == InitDfs /\ [][NextDfs]_vars /\ WF_vars(NextDfs)

\* The same run with the three transitions of dfs taken in any order.
Orders == {o \in [1 .. 3 -> 1 .. 3] : \A i, j \in 1 .. 3 : o[i] = o[j] => i = j}

InitMazeOrder ==
  /\ \E layout \in MazeLayouts, order \in Orders :
       \E s \in FreeCells(layout) :
         \E e \in FreeCells(layout) \ {s} :
           day16 = Day16Start(PlaceSE(layout, s, e), order, TRUE)
  /\ Others16

SpecMazeOrder == InitMazeOrder /\ [][NextMaze]_vars

(***************************************************************************)
(* src/days/day06.rs                                                       *)
(***************************************************************************)
Empty == [tag |-> "Empty"]
Obstruction == [tag |-> "Obstruction"]

Day06Cell ==
  [c \in {".", "^", "#"} |-> IF c = "#" THEN Obstruction ELSE Empty]

prepare06(input) ==
  LET grid == GridNew(input)
  IN [map |-> new_from(grid, Day06Cell), guard |-> position(grid, "^").value]

\* Grid::size
size(g) == g.lines * g.columns

\* The closure direction_id of fast::patrol.
direction_id_folded(direction) ==
  IF direction = NORTH \/ direction = SOUTH THEN 0 ELSE 1

direction_id(direction) ==
  CASE direction = NORTH -> 0
    [] direction = EAST -> 1
    [] direction = SOUTH -> 2
    [] direction = WEST -> 3

\* loc[did] = true, left out.
fast_mark_nothing(patrolled, index, did) == patrolled

\* loc[did] = true
fast_mark(patrolled, index, did) ==
  [patrolled EXCEPT ![index + 1][did + 1] = TRUE]

\* The end of a tick with the turn to the other side.
patrol_move_turning_left(s) ==
  LET ahead == step(s.map, s.guard, s.direction)
  IN IF ahead # None
     THEN IF unchecked_get(s.map, ahead.value) = Empty
          THEN [s EXCEPT !.guard = ahead.value]
          ELSE [s EXCEPT !.direction = rotate_90_counterclockwise(s.direction)]
     ELSE [s EXCEPT !.pc = "returned"]

\* The end of a tick, the same in both patrols: the guard moves to the cell
\* ahead, turns in front of an obstruction, or leaves the area.
patrol_move(s) ==
  LET ahead == step(s.map, s.guard, s.direction)
  IN IF ahead # None
     THEN IF unchecked_get(s.map, ahead.value) = Empty
          THEN [s EXCEPT !.guard = ahead.value]
          ELSE [s EXCEPT !.direction = rotate_90_clockwise(s.direction)]
     ELSE [s EXCEPT !.pc = "returned"]

\* One iteration of the loop of fast::patrol.  s.trace, which the code does
\* not hold, lists the <<guard, direction>> of every iteration begun.
fast_patrol(s) ==
  LET index == unchecked_index(s.map, s.guard)
      did == direction_id(s.direction)
      t == [s EXCEPT !.trace = Append(@, <<s.guard, s.direction>>)]
  IN IF s.patrolled[index + 1][did + 1]
     THEN [t EXCEPT !.is_loop = TRUE, !.pc = "returned"]
     ELSE patrol_move([t EXCEPT !.patrolled = fast_mark(@, index, did)])

\* The iteration with the set of the positions for the set patrolled.
slow_patrol_by_position(s) ==
  LET t == [s EXCEPT !.trace = Append(@, <<s.guard, s.direction>>)]
  IN IF s.guard \in s.locations
     THEN [t EXCEPT !.is_loop = TRUE, !.pc = "returned"]
     ELSE patrol_move([t EXCEPT !.patrolled = @ \cup {<<s.guard, s.direction>>},
                                !.locations = @ \cup {s.guard}])

\* One iteration of the loop of slow::patrol.
slow_patrol(s) ==
  LET t == [s EXCEPT !.trace = Append(@, <<s.guard, s.direction>>)]
  IN IF <<s.guard, s.direction>> \in s.patrolled
     THEN [t EXCEPT !.is_loop = TRUE, !.pc = "returned"]
     ELSE patrol_move([t EXCEPT !.patrolled = @ \cup {<<s.guard, s.direction>>},
                                !.locations = @ \cup {s.guard}])

\* patrol(&map, guard), before its loop.
PatrolStart(impl, map, guard) ==
  [pc |-> "patrol",
   impl |-> impl,
   map |-> map,
   guard |-> guard,
   direction |-> NORTH,
   patrolled |-> IF impl = "fast"
                 THEN [i \in 1 .. size(map) |-> <<FALSE, FALSE, FALSE, FALSE>>]
                 ELSE {},
   locations |-> {},
   is_loop |-> FALSE,
   trace |-> << >>]

\* The input text with the given obstructions and the guard.
PatrolText(obstructions, guard) ==
  [l \in 1 .. PatrolLines |->
     [c \in 1 .. PatrolColumns |->
        IF <<l - 1, c - 1>> \in obstructions THEN "#"
        ELSE IF <<l - 1, c - 1>> = guard THEN "^"
        ELSE "."]]

PatrolCells == (0 .. PatrolLines - 1) \X (0 .. PatrolColumns - 1)

Others06 == day16 = Idle /\ day12 = Idle /\ day18 = Idle /\ etc_grid = Idle /\ day15 = Idle

InitPatrol ==
  /\ \E obstructions \in SUBSET PatrolCells, impl \in {"fast", "slow"} :
       /\ Cardinality(obstructions) <= MaxObstructions
       /\ \E guard \in PatrolCells \ obstructions :
            LET p == prepare06(PatrolText(obstructions, guard))
            IN day06 = PatrolStart(impl, p.map, p.guard)
  /\ Others06

FastPatrol ==
  /\ day06.pc = "patrol"
  /\ day06.impl = "fast"
  /\ day06' = fast_patrol(day06)
  /\ UNCHANGED <<day16, day12, day18, etc_grid, day15>>

SlowPatrol ==
  /\ day06.pc = "patrol"
  /\ day06.impl = "slow"
  /\ day06' = slow_patrol(day06)
  /\ UNCHANGED <<day16, day12, day18, etc_grid, day15>>

NextPatrol == FastPatrol \/ SlowPatrol

SpecPatrol == InitPatrol /\ [][NextPatrol]_vars

\* The loop of patrol has no suspension point: an iteration that can be taken
\* is taken.
SpecPatrolFair == SpecPatrol /\ WF_vars(NextPatrol)

\* patrol(&map, guard), from any iteration of its loop to its return.
RECURSIVE patrol(_)
patrol(s) ==
  IF s.pc = "returned" THEN s
  ELSE patrol(IF s.impl = "fast" THEN fast_patrol(s) ELSE slow_patrol(s))

\* Grid::strict_index
strict_index(g, pos) ==
  IF valid_position(g, pos) THEN unchecked_index(g, pos)
  ELSE Panic("invalid position")

\* map.set_at(index, value): the item at the index takes the value.
set_at(g, index, value) == [g EXCEPT !.items[index + 1] = value]

\* The sequence of the members of a set of indices, in ascending order.
RECURSIVE Ascending(_)
Ascending(indices) ==
  IF indices = {} THEN << >>
  ELSE LET least == CHOOSE i \in indices : \A j \in indices : i <= j
       IN <<least>> \o Ascending(indices \ {least})

\* The positions that solve_part2 tries, as indices in the order of the
\* iteration: those of the first patrol (the BTreeSet of slow, ordered by line
\* and column; the Vec of fast, by index) without the guard's.
trial_positions(impl, map, guard) ==
  LET first == patrol(PatrolStart(impl, map, guard))
      guard_index == strict_index(map, guard)
  IN Ascending(
       IF impl = "fast"
       THEN {index \in 0 .. size(map) - 1 :
               /\ index # guard_index
               /\ \E did \in 1 .. 4 : first.patrolled[index + 1][did]}
       ELSE {unchecked_index(map, pos) : pos \in first.locations \ {guard}})

\* The cell of a trial takes the value: through get_mut in slow, set_at in
\* fast.
place(impl, map, obstruction, value) ==
  IF impl = "fast" THEN set_at(map, obstruction, value)
  ELSE set(map, unchecked_position(map, obstruction), value)

\* The closure without its second assignment.
trial_without_restore(s) ==
  LET obstruction == s.positions[s.next]
      blocked == place(s.impl, s.map, obstruction, Obstruction)
      is_loop == patrol(PatrolStart(s.impl, blocked, s.guard)).is_loop
  IN [s EXCEPT !.map = blocked, !.next = @ + 1,
               !.loops = @ \o <<is_loop>>]

\* The closure of the filter of solve_part2, on the next position: the cell
\* is obstructed, the patrol run, the cell emptied.  loops lists the verdicts.
trial(s) ==
  LET obstruction == s.positions[s.next]
      blocked == place(s.impl, s.map, obstruction, Obstruction)
      is_loop == patrol(PatrolStart(s.impl, blocked, s.guard)).is_loop
      restored == place(s.impl, blocked, obstruction, Empty)
  IN [s EXCEPT !.map = restored, !.next = @ + 1,
               !.loops = @ \o <<is_loop>>]

\* solve_part2 after prepare: prepared keeps the map that prepare returned.
Part2Start(impl, map, guard) ==
  [pc |-> "solve_part2", impl |-> impl, map |-> map, prepared |-> map,
   guard |-> guard, positions |-> << >>, next |-> 1, loops |-> << >>,
   count |-> 0]

\* The input text of solve_part2 with the given obstructions and the guard.
TrialText(obstructions, guard) ==
  [l \in 1 .. TrialLines |->
     [c \in 1 .. TrialColumns |->
        IF <<l - 1, c - 1>> \in obstructions THEN "#"
        ELSE IF <<l - 1, c - 1>> = guard THEN "^"
        ELSE "."]]

TrialCells == (0 .. TrialLines - 1) \X (0 .. TrialColumns - 1)

InitTrials ==
  /\ \E obstructions \in SUBSET TrialCells, impl \in {"fast", "slow"} :
       /\ Cardinality(obstructions) <= TrialObstructions
       /\ \E guard \in TrialCells \ obstructions :
            LET p == prepare06(TrialText(obstructions, guard))
            IN day06 = Part2Start(impl, p.map, p.guard)
  /\ Others06

\* The first patrol and the positions to try.
Part2Positions ==
  /\ day06.pc = "solve_part2"
  /\ day06' = [day06 EXCEPT
                 !.pc = "filter",
                 !.positions = trial_positions(day06.impl, day06.map, day06.guard)]
  /\ UNCHANGED <<day16, day12, day18, etc_grid, day15>>

\* The filter calls its closure on the next position.
Part2Trial ==
  /\ day06.pc = "filter"
  /\ day06.next <= Len(day06.positions)
  /\ day06' = trial(day06)
  /\ UNCHANGED <<day16, day12, day18, etc_grid, day15>>

\* .count()
Part2Count ==
  /\ day06.pc = "filter"
  /\ day06.next > Len(day06.positions)
  /\ day06' = [day06 EXCEPT
                 !.pc = "done",
                 !.count = Cardinality({i \in DOMAIN day06.loops : day06.loops[i]})]
  /\ UNCHANGED <<day16, day12, day18, etc_grid, day15>>

NextTrials == Part2Positions \/ Part2Trial \/ Part2Count

SpecTrials == InitTrials /\ [][NextTrials]_vars

(***************************************************************************)
(* src/days/day12.rs                                                       *)
(***************************************************************************)
\* The diagonal displacements, which src/etc/grid.rs does not hold.
SOUTH_WEST == PointAdd(SOUTH, WEST)
SOUTH_EAST == PointAdd(SOUTH, EAST)
NORTH_EAST == PointAdd(NORTH, EAST)
NORTH_WEST == PointAdd(NORTH, WEST)

\* PartitionVec: regions[i + 1] is the least index of the set of index i.
\* regions.push, once for each plot.
PartitionVecOf(n) == [i \in 1 .. n |-> i - 1]

\* A union that moves second_index alone.
union_one(regions, first_index, second_index) ==
  [regions EXCEPT ![second_index + 1] = regions[first_index + 1]]

\* regions.union(first_index, second_index)
union(regions, first_index, second_index) ==
  LET a == regions[first_index + 1]
      b == regions[second_index + 1]
      r == IF a <= b THEN a ELSE b
  IN [i \in DOMAIN regions |-> IF regions[i] = a \/ regions[i] = b THEN r
                               ELSE regions[i]]

same_set(regions, first_index, second_index) ==
  regions[first_index + 1] = regions[second_index + 1]

other_sets(regions, first_index, second_index) ==
  regions[first_index + 1] # regions[second_index + 1]

\* regions.all_sets(): each set as the set of its indices.
all_sets(regions) ==
  {{i - 1 : i \in {j \in DOMAIN regions : regions[j] = r}} :
     r \in {regions[j] : j \in DOMAIN regions}}

prepare12(input) == GridNew(input)

\* The callback of for_each_neighbour in compute_regions_and_fences, on the
\* neighbours from the k-th on: the unions it makes.
RECURSIVE union_neighbours(_, _, _, _, _)
union_neighbours(farm, regions, plot, neighbours, k) ==
  IF k > Len(neighbours) THEN regions
  ELSE LET neigh == neighbours[k]
       IN union_neighbours(
            farm,
            IF unchecked_get(farm, neigh) = unchecked_get(farm, plot)
            THEN union(regions, unchecked_index(farm, plot),
                       unchecked_index(farm, neigh))
            ELSE regions,
            plot, neighbours, k + 1)

\* The fences without the edges of the grid.
fences_inside(farm, plot) ==
  LET neighbours == for_each_neighbour(farm, plot)
  IN Cardinality({k \in DOMAIN neighbours :
                    unchecked_get(farm, neighbours[k]) # unchecked_get(farm, plot)})

\* ... and the fences it leaves to the plot.
fences(farm, plot) ==
  LET neighbours == for_each_neighbour(farm, plot)
  IN 4 - Cardinality({k \in DOMAIN neighbours :
                        unchecked_get(farm, neighbours[k]) = unchecked_get(farm, plot)})

\* plot_fences.insert(plot, fences)
insert(map, key, value) ==
  [k \in DOMAIN map \cup {key} |-> IF k = key THEN value ELSE map[k]]

\* The callback of the second for_each_with_position, at the plot of s.index;
\* after the last plot compute_regions_and_fences returns.
visit_plot(s) ==
  LET plot == unchecked_position(s.farm, s.index)
      last == s.index + 1 = size(s.farm)
      part1 == s.pc = "solve_part1: compute_regions_and_fences"
  IN [s EXCEPT
        !.regions = union_neighbours(s.farm, @, plot,
                                     for_each_neighbour(s.farm, plot), 1),
        !.plot_fences = IF last /\ ~part1 THEN << >>
                        ELSE insert(@, plot, fences(s.farm, plot)),
        !.index = IF last THEN 0 ELSE @ + 1,
        !.pc = IF ~last THEN @
               ELSE IF part1 THEN "solve_part1: sum"
               ELSE "solve_part2: corners"]

\* The sum of f over the set S.
RECURSIVE Sum(_, _)
Sum(f, S) ==
  IF S = {} THEN 0
  ELSE LET x == CHOOSE y \in S : TRUE IN f[x] + Sum(f, S \ {x})

\* The sum at the end of solve_part1 and of solve_part2: area times the sum,
\* over the plots of the region, of the count held for the plot.
price(farm, regions, count) ==
  LET sets == all_sets(regions)
      of_region == [region \in sets |->
                      Cardinality(region)
                      * Sum([index \in region |->
                               count[unchecked_position(farm, index)]], region)]
  IN Sum(of_region, sets)

\* The closures of solve_part2.
not_same_region(farm, regions, index, delta) ==
  LET other == PointAdd(unchecked_position(farm, index), delta)
      other_index == checked_index(farm, other)
  IN other_index = -1 \/ other_sets(regions, index, other_index)

same_region(farm, regions, index, delta) ==
  LET other == PointAdd(unchecked_position(farm, index), delta)
      other_index == checked_index(farm, other)
  IN other_index # -1 /\ same_set(regions, index, other_index)

b2i(b) == IF b THEN 1 ELSE 0

\* The corner patterns without the diagonal of the last four.
corns_no_diagonal(farm, regions, index) ==
  LET nsr(delta) == not_same_region(farm, regions, index, delta)
      sr(delta) == same_region(farm, regions, index, delta)
  IN b2i(nsr(WEST) /\ nsr(SOUTH)) + b2i(nsr(EAST) /\ nsr(SOUTH))
     + b2i(nsr(NORTH) /\ nsr(EAST)) + b2i(nsr(NORTH) /\ nsr(WEST))
     + b2i(sr(WEST) /\ sr(SOUTH)) + b2i(sr(EAST) /\ sr(SOUTH))
     + b2i(sr(NORTH) /\ sr(EAST)) + b2i(sr(NORTH) /\ sr(WEST))

\* The eight corner patterns at the plot of the given index.
corns(farm, regions, index) ==
  LET nsr(delta) == not_same_region(farm, regions, index, delta)
      sr(delta) == same_region(farm, regions, index, delta)
  IN b2i(nsr(WEST) /\ nsr(SOUTH)) + b2i(nsr(EAST) /\ nsr(SOUTH))
     + b2i(nsr(NORTH) /\ nsr(EAST)) + b2i(nsr(NORTH) /\ nsr(WEST))
     + b2i(sr(WEST) /\ sr(SOUTH) /\ nsr(SOUTH_WEST))
     + b2i(sr(EAST) /\ sr(SOUTH) /\ nsr(SOUTH_EAST))
     + b2i(sr(NORTH) /\ sr(EAST) /\ nsr(NORTH_EAST))
     + b2i(sr(NORTH) /\ sr(WEST) /\ nsr(NORTH_WEST))

\* The farms of tests::example_part2 and tests::EXAMPLE_INPUT.
Farm80 ==
  << <<"A", "A", "A", "A">>,
     <<"B", "B", "C", "D">>,
     <<"B", "B", "C", "C">>,
     <<"E", "E", "E", "C">> >>

Farm236 ==
  << <<"E", "E", "E", "E", "E">>,
     <<"E", "X", "X", "X", "X">>,
     <<"E", "E", "E", "E", "E">>,
     <<"E", "X", "X", "X", "X">>,
     <<"E", "E", "E", "E", "E">> >>

Farm368 ==
  << <<"A", "A", "A", "A", "A", "A">>,
     <<"A", "A", "A", "B", "B", "A">>,
     <<"A", "A", "A", "B", "B", "A">>,
     <<"A", "B", "B", "A", "A", "A">>,
     <<"A", "B", "B", "A", "A", "A">>,
     <<"A", "A", "A", "A", "A", "A">> >>

EXAMPLE_INPUT_12 ==
  << <<"R","R","R","R","I","I","C","C","F","F">>,
     <<"R","R","R","R","I","I","C","C","C","F">>,
     <<"V","V","R","R","R","C","C","F","F","F">>,
     <<"V","V","R","C","C","C","J","F","F","F">>,
     <<"V","V","V","V","C","J","J","C","F","E">>,
     <<"V","V","I","V","C","C","J","J","E","E">>,
     <<"V","V","I","I","I","C","J","J","E","E">>,
     <<"M","I","I","I","I","I","J","J","E","E">>,
     <<"M","I","I","I","S","I","J","E","E","E">>,
     <<"M","M","M","I","S","S","J","E","E","E">> >>

SmallFarms == [1 .. FarmLines -> [1 .. FarmColumns -> {"A", "B"}]]

Farms == SmallFarms \cup {Farm80, Farm236, Farm368, EXAMPLE_INPUT_12}

\* solve(input), at the call of solve_part1.
Day12Start(input) ==
  [pc |-> "solve_part1",
   farm |-> prepare12(input),
   regions |-> << >>,
   plot_fences |-> << >>,
   index |-> 0,
   corners |-> << >>,
   sol1 |-> 0,
   sol2 |-> 0]

Others12 == day16 = Idle /\ day06 = Idle /\ day18 = Idle /\ etc_grid = Idle /\ day15 = Idle

InitFarm ==
  /\ \E input \in Farms : day12 = Day12Start(input)
  /\ Others12

\* compute_regions_and_fences(&farm) up to its second loop, called by
\* solve_part1 and by solve_part2.
ComputeRegionsAndFences ==
  /\ day12.pc \in {"solve_part1", "solve_part2"}
  /\ day12' = [day12 EXCEPT
                 !.regions = PartitionVecOf(size(day12.farm)),
                 !.plot_fences = << >>,
                 !.index = 0,
                 !.pc = IF day12.pc = "solve_part1"
                        THEN "solve_part1: compute_regions_and_fences"
                        ELSE "solve_part2: compute_regions_and_fences"]
  /\ UNCHANGED <<day16, day06, day18, etc_grid, day15>>

\* One plot of the second loop; solve_part2 drops plot_fences at the return.
VisitPlot ==
  /\ day12.pc \in {"solve_part1: compute_regions_and_fences",
                   "solve_part2: compute_regions_and_fences"}
  /\ day12' = visit_plot(day12)
  /\ UNCHANGED <<day16, day06, day18, etc_grid, day15>>

SolvePart1 ==
  /\ day12.pc = "solve_part1: sum"
  /\ day12' = [day12 EXCEPT
                 !.sol1 = price(day12.farm, day12.regions, day12.plot_fences),
                 !.regions = << >>,
                 !.plot_fences = << >>,
                 !.pc = "solve_part2"]
  /\ UNCHANGED <<day16, day06, day18, etc_grid, day15>>

\* farm.for_each_with_index(...) of solve_part2
Corners ==
  /\ day12.pc = "solve_part2: corners"
  /\ day12' = [day12 EXCEPT
                 !.corners = [pos \in Positions(day12.farm) |->
                                corns(day12.farm, day12.regions,
                                      unchecked_index(day12.farm, pos))],
                 !.pc = "solve_part2: sum"]
  /\ UNCHANGED <<day16, day06, day18, etc_grid, day15>>

SolvePart2Sum ==
  /\ day12.pc = "solve_part2: sum"
  /\ day12' = [day12 EXCEPT
                 !.sol2 = price(day12.farm, day12.regions, day12.corners),
                 !.regions = << >>,
                 !.corners = << >>,
                 !.pc = "done"]
  /\ UNCHANGED <<day16, day06, day18, etc_grid, day15>>

NextFarm ==
  ComputeRegionsAndFences \/ VisitPlot \/ SolvePart1 \/ Corners \/ SolvePart2Sum

SpecFarm == InitFarm /\ [][NextFarm]_vars

(***************************************************************************)
(* src/days/day18.rs                                                       *)
(***************************************************************************)
Free == [tag |-> "Free"]
Corrupted == [tag |-> "Corrupted"]

\* The array of directions of the for loop of bfs.
BfsDirections == <<NORTH, EAST, SOUTH, WEST>>

\* The body of the for loop of bfs over the given directions, from the k-th
\* on: s.map and s.worklist after it.
RECURSIVE bfs_neighbours(_, _, _, _, _)
bfs_neighbours(s, pos, dist, directions, k) ==
  IF k > Len(directions) THEN s
  ELSE LET at == PointAdd(pos, directions[k])
       IN bfs_neighbours(
            IF get(s.map, at) = Free
            THEN [s EXCEPT !.map = set(@, at, Reached(dist + 1)),
                           !.worklist = Append(@, at)]
            ELSE s,
            pos, dist, directions, k + 1)

\* A worklist taken from its back.
pop_back(worklist) ==
  [value |-> worklist[Len(worklist)],
   rest |-> SubSeq(worklist, 1, Len(worklist) - 1)]

\* worklist.pop_front(), on a worklist that is not empty.
pop_front(worklist) == [value |-> Head(worklist), rest |-> Tail(worklist)]

\* One iteration of the while loop of bfs, on the position popped, the for
\* loop taking the given directions.
bfs_pop(s, directions) ==
  LET front == pop_front(s.worklist)
      pos == front.value
      popped == [s EXCEPT !.worklist = front.rest]
      cell == unchecked_get(s.map, pos)
  IN IF cell.tag = "Reached"
     THEN bfs_neighbours(popped, pos, cell.points, directions, 1)
     ELSE popped

\* The map of Free cells with the given cells Corrupted, as solve_part1
\* builds it.
FloodMap(corrupted) ==
  [lines |-> FloodLines,
   columns |-> FloodColumns,
   items |-> [i \in 1 .. FloodLines * FloodColumns |->
                IF <<(i - 1) \div FloodColumns, (i - 1) % FloodColumns>> \in corrupted
                THEN Corrupted ELSE Free]]

FloodCells == (0 .. FloodLines - 1) \X (0 .. FloodColumns - 1)

\* bfs(&mut map, start), at its call; called keeps the map of the call, and
\* reordered tells that an iteration has left another worklist than it would
\* have with the directions in the order of the source.
Day18Start(map, start) ==
  [pc |-> "bfs", map |-> map, start |-> start, worklist |-> << >>,
   called |-> map, reordered |-> FALSE]

Others18 == day16 = Idle /\ day06 = Idle /\ day12 = Idle /\ etc_grid = Idle /\ day15 = Idle

InitFlood ==
  /\ \E corrupted \in SUBSET FloodCells, start \in FloodCells :
       /\ Cardinality(corrupted) <= MaxCorrupted
       /\ day18 = Day18Start(FloodMap(corrupted), start)
  /\ Others18

\* map.update(&start, Cell::Reached(0)); worklist.push_back(start)
Bfs ==
  /\ day18.pc = "bfs"
  /\ day18' = [day18 EXCEPT !.map = update(@, day18.start, Reached(0)),
                            !.worklist = Append(@, day18.start),
                            !.pc = "while"]
  /\ UNCHANGED <<day16, day06, day12, etc_grid, day15>>

BfsPop ==
  /\ day18.pc = "while"
  /\ day18.worklist # << >>
  /\ day18' = bfs_pop(day18, BfsDirections)
  /\ UNCHANGED <<day16, day06, day12, etc_grid, day15>>

\* worklist.pop_front() gives None.
BfsReturn ==
  /\ day18.pc = "while"
  /\ day18.worklist = << >>
  /\ day18' = [day18 EXCEPT !.pc = "returned"]
  /\ UNCHANGED <<day16, day06, day12, etc_grid, day15>>

NextFlood == Bfs \/ BfsPop \/ BfsReturn

SpecFlood == InitFlood /\ [][NextFlood]_vars

\* The orders of the four directions.
Orders4 == {o \in [1 .. 4 -> 1 .. 4] : \A i, j \in 1 .. 4 : o[i] = o[j] => i = j}

\* An iteration of the while loop whose for loop takes the four directions
\* in any order.
BfsPopInOrder ==
  /\ day18.pc = "while"
  /\ day18.worklist # << >>
  /\ \E o \in Orders4 :
       LET next == bfs_pop(day18, [k \in 1 .. 4 |-> BfsDirections[o[k]]])
       IN day18' = [next EXCEPT
                      !.reordered = @ \/ next # bfs_pop(day18, BfsDirections)]
  /\ UNCHANGED <<day16, day06, day12, etc_grid, day15>>

NextFloodOrder == Bfs \/ BfsPopInOrder \/ BfsReturn

\* bfs(&mut map, Point(0, 0)), as solve_part1 and solve_part2 call it.
InitFloodOrder ==
  /\ \E corrupted \in SUBSET FloodCells :
       /\ Cardinality(corrupted) <= MaxCorrupted
       /\ day18 = Day18Start(FloodMap(corrupted), <<0, 0>>)
  /\ Others18

SpecFloodOrder == InitFloodOrder /\ [][NextFloodOrder]_vars

(***************************************************************************)
(* src/days/day15.rs                                                       *)
(***************************************************************************)
Pack == [tag |-> "Pack"]
BoxLeft == [tag |-> "BoxLeft"]
BoxRight == [tag |-> "BoxRight"]

\* The closure of new_from in prepare.
Day15Cell ==
  [c \in {".", "@", "O", "#", "[", "]"} |->
     CASE c = "O" -> Pack
       [] c = "#" -> Wall
       [] c = "[" -> BoxLeft
       [] c = "]" -> BoxRight
       [] OTHER -> Free]

\* prepare, on the rows of the grid of the input.
prepare15(input) ==
  LET grid == GridNew(input)
  IN [map |-> new_from(grid, Day15Cell), robot |-> position(grid, "@").value]

\* The closure of solve_part2 that doubles the width of the input.
Wide ==
  [c \in {".", "@", "O", "#"} |->
     CASE c = "#" -> <<"#", "#">>
       [] c = "O" -> <<"[", "]">>
       [] c = "." -> <<".", ".">>
       [] c = "@" -> <<"@", ".">>]

widen(input) ==
  [l \in DOMAIN input |->
     [c \in 1 .. 2 * Len(input[l]) |-> Wide[input[l][(c + 1) \div 2]][2 - (c % 2)]]]

\* Changes::default()
NoChanges == [free |-> << >>, update |-> << >>]

\* changes.update.push(write); changes.free.push(freed)
pushed(changes, write, freed) ==
  [free |-> Append(changes.free, freed), update |-> Append(changes.update, write)]

\* Changes::append
append(changes, other) ==
  [free |-> changes.free \o other.free, update |-> changes.update \o other.update]

\* The writes of one loop of Changes::apply, in their order: each item takes
\* the value of the last write to it.
write_all(map, writes) ==
  [lines |-> map.lines, columns |-> map.columns,
   items |-> [k \in DOMAIN map.items |->
                LET at == {i \in DOMAIN writes :
                             unchecked_index(map, writes[i][1]) + 1 = k}
                IN IF at = {} THEN map.items[k]
                   ELSE writes[CHOOSE i \in at : \A j \in at : j <= i][2]]]

\* The two loops in the other order.
apply_updates_first(changes, map) ==
  write_all(write_all(map, changes.update),
            [i \in DOMAIN changes.free |-> <<changes.free[i], Free>>])

\* Changes::apply: the cells of free take Free, then those of update take
\* their values.
apply(changes, map) ==
  write_all(write_all(map, [i \in DOMAIN changes.free |-> <<changes.free[i], Free>>]),
            changes.update)

RECURSIVE try_make_free(_, _, _)
try_make_free(grid, direction, target) ==
  LET cell == get(grid, target)
      next_target == PointAdd(target, direction)
      next == try_make_free(grid, direction, next_target)
      left == IF cell = BoxLeft THEN target ELSE PointAdd(target, WEST)
      right == PointAdd(left, EAST)
      left_target == PointAdd(left, direction)
      right_target == PointAdd(right, direction)
      left_changes == try_make_free(grid, direction, left_target)
      right_changes == try_make_free(grid, direction, right_target)
  IN CASE cell = Free -> Some(NoChanges)
       [] cell = Wall \/ cell = None -> None
       [] cell = Pack ->
            IF next = None THEN None
            ELSE Some(pushed(next.value, <<next_target, Pack>>, target))
       [] cell \in {BoxLeft, BoxRight} /\ direction \in {WEST, EAST} ->
            IF next = None THEN None
            ELSE Some(pushed(next.value, <<next_target, cell>>, target))
       [] OTHER ->
            IF left_changes = None THEN None
            ELSE IF right_changes = None THEN None
            ELSE Some(pushed(pushed(append(append(NoChanges, left_changes.value),
                                           right_changes.value),
                                    <<left_target, BoxLeft>>, left),
                             <<right_target, BoxRight>>, right))

\* try_move with the robot moved before the boxes are tried.
try_move_robot_first(s, direction) ==
  LET target == step(s.map, s.robot, direction)
      changes == try_make_free(s.map, direction, target.value)
  IN IF target = None THEN [s EXCEPT !.returned = "false"]
     ELSE IF changes = None
     THEN [s EXCEPT !.robot = target.value, !.returned = "false"]
     ELSE [s EXCEPT !.map = apply(changes.value, s.map),
                    !.robot = target.value, !.returned = "true"]

\* try_move(&mut grid, &direction, &mut robot): returned is what it returns.
try_move(s, direction) ==
  LET target == step(s.map, s.robot, direction)
      changes == try_make_free(s.map, direction, target.value)
  IN IF target = None THEN [s EXCEPT !.returned = "false"]
     ELSE IF changes = None THEN [s EXCEPT !.returned = "false"]
     ELSE [s EXCEPT !.map = apply(changes.value, s.map),
                    !.robot = target.value, !.returned = "true"]

\* compute_score: the coordinate of one position, 100 * line + column for a
\* Pack or a BoxLeft, and the sums over one line and over the lines from one on.
gps_coordinate(grid, line, column) ==
  IF grid.items[line * grid.columns + column + 1] \in {Pack, BoxLeft}
  THEN 100 * line + column
  ELSE 0

RECURSIVE line_score(_, _, _)
line_score(grid, line, column) ==
  IF column >= grid.columns THEN 0
  ELSE gps_coordinate(grid, line, column) + line_score(grid, line, column + 1)

RECURSIVE score_from(_, _)
score_from(grid, line) ==
  IF line >= grid.lines THEN 0
  ELSE line_score(grid, line, 0) + score_from(grid, line + 1)

compute_score(grid) == score_from(grid, 0)

\* The cells of a map that hold a value.
Holding(map, cell) == {p \in Positions(map) : get(map, p) = cell}

\* solve_part1 or solve_part2 after prepare.  A run either follows the moves
\* of its input or, with any_moves, takes any move at each step.  direction
\* is the direction of the last call of try_move.  packs, lefts, rights and
\* walls keep what the map held at first, paired whether each BoxRight had
\* its BoxLeft.
Day15Start(input, moves, any_moves) ==
  LET p == prepare15(input)
  IN [pc |-> "moves", map |-> p.map, robot |-> p.robot,
      moves |-> moves, any_moves |-> any_moves, direction |-> <<0, 0>>,
      returned |-> "none", score |-> 0,
      packs |-> Cardinality(Holding(p.map, Pack)),
      lefts |-> Cardinality(Holding(p.map, BoxLeft)),
      rights |-> Cardinality(Holding(p.map, BoxRight)),
      walls |-> Holding(p.map, Wall),
      paired |-> \A q \in Holding(p.map, BoxRight) :
                   PointAdd(q, WEST) \in Holding(p.map, BoxLeft)]

\* tests::SMALLER_EXAMPLE_INPUT, tests::EXAMPLE_INPUT_2 and the last input of
\* tests::units, with their moves.
SMALLER_EXAMPLE_INPUT ==
  << <<"#","#","#","#","#","#","#","#">>,
     <<"#",".",".","O",".","O",".","#">>,
     <<"#","#","@",".","O",".",".","#">>,
     <<"#",".",".",".","O",".",".","#">>,
     <<"#",".","#",".","O",".",".","#">>,
     <<"#",".",".",".","O",".",".","#">>,
     <<"#",".",".",".",".",".",".","#">>,
     <<"#","#","#","#","#","#","#","#">> >>

SMALLER_EXAMPLE_MOVES ==
  <<WEST, NORTH, NORTH, EAST, EAST, EAST, SOUTH, SOUTH, WEST, SOUTH, EAST, EAST, SOUTH, WEST, WEST>>

EXAMPLE_INPUT_2 ==
  << <<"#","#","#","#","#","#","#">>,
     <<"#",".",".",".","#",".","#">>,
     <<"#",".",".",".",".",".","#">>,
     <<"#",".",".","O","O","@","#">>,
     <<"#",".",".","O",".",".","#">>,
     <<"#",".",".",".",".",".","#">>,
     <<"#","#","#","#","#","#","#">> >>

EXAMPLE_MOVES_2 == <<WEST, SOUTH, SOUTH, WEST, WEST, NORTH, NORTH, WEST, WEST, NORTH, NORTH>>

UNITS_INPUT ==
  << <<"#","#","#","#","#","#">>,
     <<"#",".",".",".",".","#">>,
     <<"#","O","O","O",".","#">>,
     <<"#","O",".","O",".","#">>,
     <<"#","O","O","O",".","#">>,
     <<"#",".","O","O","@","#">>,
     <<"#",".","O",".",".","#">>,
     <<"#",".",".",".",".","#">>,
     <<"#","#","#","#","#","#">> >>

UNITS_MOVES == <<WEST, SOUTH, SOUTH, WEST, WEST, NORTH>>

\* The sets of at most n members of a set.
RECURSIVE UpTo(_, _)
UpTo(S, n) ==
  IF n = 0 THEN {{}}
  ELSE UpTo(S, n - 1) \cup {T \cup {x} : T \in UpTo(S, n - 1), x \in S}

WarehouseCells == (0 .. WarehouseLines - 1) \X (0 .. WarehouseColumns - 1)

\* The text of a warehouse: wide boxes at the cells of boxes and the cells
\* east of them, the characters of others at their cells, the robot.
WarehouseText(boxes, others, robot) ==
  [l \in 1 .. WarehouseLines |->
     [c \in 1 .. WarehouseColumns |->
        LET p == <<l - 1, c - 1>>
        IN IF p \in boxes THEN "["
           ELSE IF PointAdd(p, WEST) \in boxes THEN "]"
           ELSE IF p \in DOMAIN others THEN others[p]
           ELSE IF p = robot THEN "@"
           ELSE "."]]

Others15 ==
  day16 = Idle /\ day06 = Idle /\ day12 = Idle /\ day18 = Idle /\ etc_grid = Idle

\* The inputs: every warehouse of the bounds with at most MaxBoxes wide
\* boxes and at most MaxOthers cells holding a wall, a narrow box or a lone
\* right half, under any moves, and the three inputs of the tests under
\* their moves.
InitWarehouse ==
  /\ \/ \E boxes \in UpTo(WarehouseCells, MaxBoxes) :
          \E cells \in UpTo(WarehouseCells, MaxOthers) :
            \E others \in [cells -> {"#", "O", "]"}] :
              \E robot \in WarehouseCells :
                /\ \A b \in boxes :
                     /\ PointAdd(b, EAST) \in WarehouseCells \ boxes
                     /\ {b, PointAdd(b, EAST)} \cap (cells \cup {robot}) = {}
                /\ robot \notin cells
                /\ day15 = Day15Start(WarehouseText(boxes, others, robot),
                                      << >>, TRUE)
     \/ day15 = Day15Start(SMALLER_EXAMPLE_INPUT, SMALLER_EXAMPLE_MOVES, FALSE)
     \/ day15 = Day15Start(widen(EXAMPLE_INPUT_2), EXAMPLE_MOVES_2, FALSE)
     \/ day15 = Day15Start(widen(UNITS_INPUT), UNITS_MOVES, FALSE)
  /\ Others15

\* The for loop over the moves calls try_move.
TryMove ==
  /\ day15.pc = "moves"
  /\ \E direction \in {NORTH, EAST, SOUTH, WEST} :
       /\ day15.any_moves \/ (day15.moves # << >> /\ direction = Head(day15.moves))
       /\ day15' = try_move([day15 EXCEPT !.moves = IF day15.any_moves THEN << >>
                                                    ELSE Tail(@),
                                          !.direction = direction],
                            direction)
  /\ UNCHANGED <<day16, day06, day12, day18, etc_grid>>

\* After the last move, compute_score.
ComputeScore ==
  /\ day15.pc = "moves"
  /\ ~day15.any_moves
  /\ day15.moves = << >>
  /\ day15' = [day15 EXCEPT !.pc = "done", !.score = compute_score(day15.map)]
  /\ UNCHANGED <<day16, day06, day12, day18, etc_grid>>

NextWarehouse == TryMove \/ ComputeScore

SpecWarehouse == InitWarehouse /\ [][NextWarehouse]_vars

(***************************************************************************)
(* day16: what the search is to compute.  The states are the pairs         *)
(* <<position, heading>>; a step in the heading costs 1, a step after a    *)
(* turn of 90 degrees costs 1001; nothing leaves the end cell.             *)
(***************************************************************************)
Directions == {NORTH, EAST, SOUTH, WEST}

SetMin(S) == CHOOSE x \in S : \A y \in S : x <= y

MazeStates(g) ==
  {<<p, d>> : p \in {q \in Positions(g) : get(g, q) # Wall}, d \in Directions}

\* Above the cost of every path that visits no state twice.
Infinity(g) == 1001 * 4 * g.lines * g.columns + 1

TurnCost(h, d) == IF h = d THEN 1 ELSE 1001

\* The states with a transition to s.
Predecessors(g, end, s) ==
  LET q == <<s[1][1] - s[2][1], s[1][2] - s[2][2]>>
  IN {<<q, h>> : h \in {s[2], rotate_90_clockwise(s[2]),
                        rotate_90_counterclockwise(s[2])}}
     \cap (IF q = end THEN {} ELSE MazeStates(g))

\* The least cost of every state, by relaxation to the fixed point.
RECURSIVE LeastCosts(_, _, _)
LeastCosts(g, end, dist) ==
  LET next == [s \in DOMAIN dist |->
                 SetMin({dist[s]} \cup
                        {dist[q] + TurnCost(q[2], s[2]) :
                           q \in {r \in Predecessors(g, end, s) :
                                    dist[r] < Infinity(g)}})]
  IN IF next = dist THEN dist ELSE LeastCosts(g, end, next)

CostsFrom(g, start, end) ==
  LeastCosts(g, end, [s \in MazeStates(g) |->
                        IF s = <<start, EAST>> THEN 0 ELSE Infinity(g)])

MinCost(g, end, dist) == SetMin({dist[<<end, d>>] : d \in Directions})

\* The states on a path of least cost to the end, backwards from the end.
RECURSIVE BestStates(_, _, _, _)
BestStates(g, end, dist, found) ==
  LET more == found \cup
               {q \in DOMAIN dist :
                  \E s \in found :
                    /\ q \in Predecessors(g, end, s)
                    /\ dist[q] + TurnCost(q[2], s[2]) = dist[s]}
  IN IF more = found THEN found ELSE BestStates(g, end, dist, more)

BestCells(g, end, dist) ==
  LET best == MinCost(g, end, dist)
  IN {s[1] : s \in BestStates(g, end, dist,
                              {<<end, d>> : d \in {h \in Directions :
                                                     dist[<<end, h>>] = best}})}

\* compute_least_distances has returned or panicked.
Computed16 == day16.pc \notin {"idle", "dfs"}

\* C1: whenever the end cell can be reached, compute_least_distances returns
\* the least cost of a path from <<start, EAST>> to the end cell.
C1_LeastCostIsMinimum ==
  Computed16 =>
    LET dist == CostsFrom(day16.map, day16.start, day16.end)
        min == MinCost(day16.map, day16.end, dist)
    IN min < Infinity(day16.map) =>
         day16.pc # "no path found" /\ day16.best = min

\* C2: when solve_part2 is done, on_a_best_path is the set of the cells on a
\* path of least cost from <<start, EAST>> to the end cell.
C2_BestPathCellsExact ==
  day16.pc = "done" =>
    day16.on_a_best_path =
      BestCells(day16.map, day16.end,
                CostsFrom(day16.map, day16.start, day16.end))

\* The iteration of backward_dfs's loop that is taken next, and the cell it
\* looks at.
NextIteration == Head(day16.stack)
PredecessorCell ==
  get(day16.map, PointAdd(NextIteration.at, NextIteration.turn_direction))
InBackwardLoop == day16.pc = "solve_part2" /\ day16.stack # << >>

\* C3, as amended: an iteration of backward_dfs's loop recurses into the
\* predecessor cell, and marks it, exactly when the cell is Reached(p) and
\* p <= remaining_points - cost in the code's u64 arithmetic: when
\* remaining_points < cost the run panics under overflow checks, and
\* otherwise the difference wraps and the cell is accepted.
C3_AcceptedIffWithinBudget ==
  [][InBackwardLoop =>
       LET it == NextIteration
           cell == PredecessorCell
           within ==
             /\ cell.tag = "Reached"
             /\ IF 0 <= it.remaining_points /\ it.remaining_points < it.cost
                THEN ~day16.overflow_checks
                ELSE \/ it.remaining_points < 0
                     \/ cell.points <= it.remaining_points - it.cost
       IN /\ (day16'.calls = day16.calls + 1) <=> within
          /\ day16'.calls \in {day16.calls, day16.calls + 1}
          /\ within /\ day16'.pc # "stack overflow" =>
               PointAdd(it.at, it.turn_direction) \in day16'.on_a_best_path
  ]_vars

\* C3, as claimed: the predecessor cell is accepted exactly when its recorded
\* cost equals the remaining budget less the cost of the transition.
C3_AcceptedIffEqualsBudget ==
  [][InBackwardLoop =>
       ((day16'.calls = day16.calls + 1) <=>
          /\ PredecessorCell.tag = "Reached"
          /\ PredecessorCell.points = NextIteration.remaining_points - NextIteration.cost)
  ]_vars

\* A predecessor has been accepted, and the next iteration looks at a cell
\* recorded with less than the budget it leaves.
C3_AcceptsBelowBudget ==
  /\ InBackwardLoop
  /\ day16.calls >= day16.direction
  /\ PredecessorCell.tag = "Reached"
  /\ NextIteration.remaining_points >= NextIteration.cost
  /\ PredecessorCell.points < NextIteration.remaining_points - NextIteration.cost

\* The run of solve_part2 from state s to its end.
Ended16(s) ==
  s.pc \in {"done", "no path found", "attempt to subtract with overflow",
            "stack overflow"}

Day16Step(s) ==
  LET popped == [s EXCEPT !.stack = Tail(@)]
      top == Head(s.stack)
  IN IF s.pc = "dfs"
     THEN IF s.stack # << >>
          THEN dfs(popped, top.accumulated_points, top.at, top.direction)
          ELSE compute_least_distances(s)
     ELSE IF s.stack # << >> THEN backward_iteration(popped, top)
     ELSE IF s.direction <= 4
     THEN backward_dfs([s EXCEPT !.direction = @ + 1], s.best, s.end,
                       Part2Directions[s.direction], 1)
     ELSE [s EXCEPT !.pc = "done"]

RECURSIVE RunToEnd16(_)
RunToEnd16(s) == IF Ended16(s) THEN s ELSE RunToEnd16(Day16Step(s))

\* The run on the same input with the transitions in the order of the source.
SourceRun ==
  RunToEnd16(
    [day16 EXCEPT
       !.pc = "dfs",
       !.map.items = [i \in DOMAIN @ |-> IF @[i] = Wall THEN Wall ELSE Unreached],
       !.order = SourceOrder,
       !.stack = << [accumulated_points |-> 0, at |-> day16.start,
                     direction |-> EAST] >>,
       !.best = 0, !.direction = 0, !.on_a_best_path = {}, !.calls = 0])

\* C4: in whatever order dfs takes its three transitions, the run ends as the
\* run in the order of the source does, with the same least cost and the same
\* set of cells on a best path.
C4_SameAnswerInEveryOrder ==
  Ended16(day16) =>
    /\ day16.pc = SourceRun.pc
    /\ day16.pc # "no path found" => day16.best = SourceRun.best
    /\ day16.pc = "done" => day16.on_a_best_path = SourceRun.on_a_best_path

(***************************************************************************)
(* day06: the patrol.                                                      *)
(***************************************************************************)
\* A <<guard, direction>> at which two iterations began.
Recurred(trace) ==
  \E i, j \in 1 .. Len(trace) : i < j /\ trace[i] = trace[j]

\* C5: a patrol that comes back to a <<position, heading>> it has visited
\* reports a loop, and no patrol begins more than 4 * lines * columns
\* iterations.
C5_LoopReportedWithinBound ==
  day06.pc # "idle" =>
    /\ Len(day06.trace) <= 4 * day06.map.lines * day06.map.columns
    /\ Recurred(day06.trace) => day06.pc = "returned" /\ day06.is_loop

\* A loop reported after the guard has moved and turned.
C5_LoopFound ==
  /\ day06.pc = "returned"
  /\ day06.is_loop
  /\ Recurred(day06.trace)
  /\ Len(day06.trace) > 4

\* C6: every patrol returns; it returns is_loop = TRUE exactly when a
\* <<position, heading>> recurred, and is_loop = FALSE only with the cell
\* ahead of the guard outside the grid.
C6_PatrolTerminates ==
  /\ <>(day06.pc = "returned")
  /\ [](day06.pc = "returned" =>
          /\ day06.is_loop <=> Recurred(day06.trace)
          /\ ~day06.is_loop => step(day06.map, day06.guard, day06.direction) = None)

\* A patrol that left the area after the guard has moved and turned.
C6_LeftTheArea ==
  /\ day06.pc = "returned"
  /\ ~day06.is_loop
  /\ Len(day06.trace) > 4
  /\ day06.direction # NORTH

(***************************************************************************)
(* day12: regions, fences and sides.                                       *)
(***************************************************************************)
Neighbours4(pos) == {PointAdd(pos, d) : d \in Directions}

\* The positions connected to those of `seen` through chains of 4-adjacent
\* plots that hold the same value.
RECURSIVE Chain(_, _)
Chain(farm, seen) ==
  LET more == {q \in Positions(farm) \ seen :
                 \E p \in seen : /\ q \in Neighbours4(p)
                                 /\ unchecked_get(farm, q) = unchecked_get(farm, p)}
  IN IF more = {} THEN seen ELSE Chain(farm, seen \cup more)

ChainRegions(farm) == {Chain(farm, {p}) : p \in Positions(farm)}

\* C7: after compute_regions_and_fences, two indices are in the same set of
\* the partition iff their plots are connected through a chain of 4-adjacent
\* plots that all hold the same value.
C7_SameSetIffConnected ==
  day12.pc \in {"solve_part1: sum", "solve_part2: corners"} =>
    \A p \in Positions(day12.farm) :
      LET chain == Chain(day12.farm, {p})
      IN \A q \in Positions(day12.farm) :
           same_set(day12.regions, unchecked_index(day12.farm, p),
                    unchecked_index(day12.farm, q))
           <=> q \in chain

\* A partition with a region that is not a rectangle, next to another plot
\* of its plant that it does not hold.
C7_RegionsFound ==
  /\ day12.pc = "solve_part1: sum"
  /\ \E p, q \in Positions(day12.farm) :
       /\ unchecked_get(day12.farm, p) = unchecked_get(day12.farm, q)
       /\ q = PointAdd(p, SOUTH_WEST)
       /\ other_sets(day12.regions, unchecked_index(day12.farm, p),
                     unchecked_index(day12.farm, q))
  /\ \E region \in all_sets(day12.regions) : Cardinality(region) >= 5

\* The fences of a plot: its four sides less those shared with a plot of its
\* region.
ChainFences(farm, region, p) ==
  4 - Cardinality(Neighbours4(p) \cap region)

ChainPrice(farm) ==
  LET regions == ChainRegions(farm)
      of_region == [region \in regions |->
                      Cardinality(region)
                      * Sum([p \in region |-> ChainFences(farm, region, p)], region)]
  IN Sum(of_region, regions)

\* C8: the fence count of a plot is 4 less the number of its neighbours, in
\* the grid, of its region, and solve_part1 returns the sum over the regions
\* of area times the sum of the fence counts of its plots.
C8_FencesAndPrice ==
  /\ day12.pc = "solve_part1: sum" =>
       \A p \in Positions(day12.farm) :
         day12.plot_fences[p] =
           4 - Cardinality(
                 {q \in Neighbours4(p) \cap Positions(day12.farm) :
                    same_set(day12.regions, unchecked_index(day12.farm, p),
                             unchecked_index(day12.farm, q))})
  /\ day12.pc \in {"solve_part2", "solve_part2: corners", "solve_part2: sum", "done"} =>
       day12.sol1 = ChainPrice(day12.farm)

\* solve_part1 has returned the price of a farm with a plot fenced all
\* around, a plot at the edge with one neighbour of its region, and a plot
\* without fence.
C8_PriceReturned ==
  /\ day12.pc = "solve_part2"
  /\ day12.sol1 = ChainPrice(day12.farm)
  /\ LET f == [p \in Positions(day12.farm) |-> fences(day12.farm, p)]
     IN /\ \E p \in DOMAIN f : f[p] = 4
        /\ \E p \in DOMAIN f : f[p] = 0
        /\ \E p \in DOMAIN f : f[p] = 3 /\ (p[1] = 0 \/ p[2] = 0)

\* The sides of a region: for each of the four directions, the maximal runs
\* of adjacent plots of the region whose neighbour in that direction is not
\* in the region (in another region or outside the grid).  A run is counted
\* at its first plot.
Sides(region) ==
  LET first(d) == {p \in region :
                     /\ PointAdd(p, d) \notin region
                     /\ LET before == PointAdd(p, rotate_90_counterclockwise(d))
                        IN ~(before \in region /\ PointAdd(before, d) \notin region)}
      count == [d \in Directions |-> Cardinality(first(d))]
  IN Sum(count, Directions)

\* C9: for every region, the corner patterns counted at its plots sum to the
\* number of its sides.
C9_CornersAreSides ==
  day12.pc = "solve_part2: sum" =>
    \A region \in ChainRegions(day12.farm) :
      Sum([p \in region |-> day12.corners[p]], region) = Sides(region)

\* The corners of a farm with a region of twelve sides or more that
\* surrounds two regions of one plant touching diagonally.
C9_HolesTouchingDiagonally ==
  /\ day12.pc = "solve_part2: sum"
  /\ \E region \in ChainRegions(day12.farm) :
       /\ Sum([p \in region |-> day12.corners[p]], region) >= 12
       /\ \E p \in Positions(day12.farm) \ region :
            LET q == PointAdd(p, SOUTH_WEST)
            IN /\ q \in Positions(day12.farm) \ region
               /\ unchecked_get(day12.farm, p) = unchecked_get(day12.farm, q)
               /\ q \notin Chain(day12.farm, {p})
               /\ PointAdd(p, SOUTH) \in region
               /\ PointAdd(p, WEST) \in region

(***************************************************************************)
(* day18: the flood fill.                                                  *)
(***************************************************************************)
\* The cells connected to start through 4-adjacent cells that are not
\* Corrupted, each with the least number of steps from start: the layers
\* from the d-th on, `frontier` being the d-th.
RECURSIVE Hops(_, _, _, _)
Hops(map, frontier, seen, d) ==
  LET next == {q \in Positions(map) \ seen :
                 /\ unchecked_get(map, q) # Corrupted
                 /\ \E p \in frontier : q \in Neighbours4(p)}
      here == [p \in frontier |-> d]
  IN IF frontier = {} THEN here
     ELSE LET rest == Hops(map, next, seen \cup next, d + 1)
          IN [p \in frontier \cup DOMAIN rest |->
                IF p \in frontier THEN d ELSE rest[p]]

HopsFrom(map, start) ==
  IF unchecked_get(map, start) = Corrupted THEN [p \in {} |-> 0]
  ELSE Hops(map, {start}, {start}, 0)

\* C10: after bfs a cell holds Reached(d) iff it is connected to start through
\* 4-adjacent cells that are not Corrupted, and then d is the least number of
\* steps from start; Corrupted cells are unchanged and the Free cells that
\* are not connected stay Free.
C10_ReachedIffConnected ==
  day18.pc = "returned" =>
    LET hops == HopsFrom(day18.called, day18.start)
    IN \A p \in Positions(day18.map) :
         LET cell == unchecked_get(day18.map, p)
             before == unchecked_get(day18.called, p)
         IN /\ cell.tag = "Reached" <=> p \in DOMAIN hops
            /\ p \in DOMAIN hops => cell = Reached(hops[p])
            /\ before = Corrupted => cell = Corrupted
            /\ before = Free /\ p \notin DOMAIN hops => cell = Free

\* bfs to its return, with the directions in the order of the source.
RECURSIVE RunToEnd18(_)
RunToEnd18(s) ==
  IF s.pc = "returned" THEN s
  ELSE IF s.pc = "bfs"
  THEN RunToEnd18([s EXCEPT !.map = update(@, s.start, Reached(0)),
                            !.worklist = Append(@, s.start),
                            !.pc = "while"])
  ELSE IF s.worklist # << >> THEN RunToEnd18(bfs_pop(s, BfsDirections))
  ELSE [s EXCEPT !.pc = "returned"]

\* C11: in whatever order each iteration examines the four neighbours, bfs
\* returns with the cells marked and the distances recorded that it has with
\* the order of the source.
C11_SameMapInEveryOrder ==
  day18.pc = "returned" =>
    day18.map = RunToEnd18(Day18Start(day18.called, day18.start)).map

\* bfs has returned after an iteration that left another worklist than the
\* order of the source does, with a cell three steps away or more.
C11_ReturnedAfterReordering ==
  /\ day18.pc = "returned"
  /\ day18.reordered
  /\ \E i \in DOMAIN day18.map.items :
       day18.map.items[i].tag = "Reached" /\ day18.map.items[i].points >= 3

(***************************************************************************)
(* etc/grid.rs                                                             *)
(***************************************************************************)
\* The rows of a text all have the width of the first.
EqualWidths(input) == \A l \in DOMAIN input : Len(input[l]) = Len(input[1])

\* C12: Grid::new never returns a Grid for a text whose rows do not all have
\* the same width.
C12_RaggedInputFails ==
  etc_grid.pc = "ready" => EqualWidths(etc_grid.input)

\* C13: every Grid, as returned by Grid::new and new_from and after any
\* writes through get_mut, has lines * columns items, and its lines and
\* columns are those of its construction.
C13_ItemsLenIsSize ==
  etc_grid.pc = "ready" =>
    /\ Len(etc_grid.g.items) = etc_grid.g.lines * etc_grid.g.columns
    /\ etc_grid.g.lines = etc_grid.built.lines
    /\ etc_grid.g.columns = etc_grid.built.columns

\* C14: unchecked_position gives, for an index below lines * columns, a valid
\* position whose unchecked_index is the index, and unchecked_index gives,
\* for a valid position, an index below lines * columns whose
\* unchecked_position is the position.
C14_IndexPositionBijection ==
  LET r == etc_grid.result
      g == etc_grid.g
  IN /\ etc_grid.pc = "done" /\ r.op = "unchecked_position"
          /\ r.arg < g.lines * g.columns
        => valid_position(g, r.value) /\ unchecked_index(g, r.value) = r.arg
     /\ etc_grid.pc = "done" /\ r.op = "unchecked_index"
          /\ valid_position(g, r.arg)
        => /\ 0 <= r.value /\ r.value < g.lines * g.columns
           /\ unchecked_position(g, r.value) = r.arg

\* unchecked_index has given the index of a position below the first line of
\* a grid with other lines than columns.
C14_IndexOfSecondLine ==
  /\ etc_grid.pc = "done"
  /\ etc_grid.result.op = "unchecked_index"
  /\ valid_position(etc_grid.g, etc_grid.result.arg)
  /\ etc_grid.result.arg[1] >= 1
  /\ etc_grid.g.lines # etc_grid.g.columns

\* The coordinate that a usize (a negative value stands for one near
\* usize::MAX) and a displacement add up to is below the limit.
Inside(coordinate, delta, limit) ==
  coordinate >= 0 /\ 0 <= coordinate + delta /\ coordinate + delta < limit

\* C15: step gives the position origin + delta when its two coordinates are
\* not negative, its line is below lines and its column below columns, and
\* None in every other case.
C15_StepInsideOrAbsent ==
  LET r == etc_grid.result
      g == etc_grid.g
  IN etc_grid.result.op = "step" =>
       /\ etc_grid.pc = "done"
       /\ r.value =
            IF /\ Inside(r.arg[1][1], r.arg[2][1], g.lines)
               /\ Inside(r.arg[1][2], r.arg[2][2], g.columns)
            THEN Some(<<r.arg[1][1] + r.arg[2][1], r.arg[1][2] + r.arg[2][2]>>)
            ELSE None

\* step has given None from a valid origin for a position of a line of the
\* grid, in the column after the last.
C15_StepOffTheRightEdge ==
  /\ etc_grid.pc = "done"
  /\ etc_grid.result.op = "step"
  /\ etc_grid.result.value = None
  /\ valid_position(etc_grid.g, etc_grid.result.arg[1])
  /\ Inside(etc_grid.result.arg[1][1], etc_grid.result.arg[2][1], etc_grid.g.lines)
  /\ etc_grid.result.arg[1][2] + etc_grid.result.arg[2][2] = etc_grid.g.columns

\* The displacements of an extraction.
Displacements(r) ==
  IF r.op = "step_extract"
  THEN [i \in 1 .. r.arg[3] |-> <<(i - 1) * r.arg[2][1], (i - 1) * r.arg[2][2]>>]
  ELSE r.arg[2]

InsideGrid(g, origin, delta) ==
  Inside(origin[1], delta[1], g.lines) /\ Inside(origin[2], delta[2], g.columns)

\* What the documentation of the two extractions promises: the N items at the
\* N positions when all of them are inside the grid, None when one is not.
AllOrNothing(g, r) ==
  IF \A i \in DOMAIN Displacements(r) :
       InsideGrid(g, r.arg[1], Displacements(r)[i])
  THEN Some([i \in DOMAIN Displacements(r) |->
               g.items[g.columns * (r.arg[1][1] + Displacements(r)[i][1])
                       + r.arg[1][2] + Displacements(r)[i][2] + 1]])
  ELSE None

\* C16: step_extract and deltas_extract give the N items at the N positions
\* when all of them are inside the grid, and None when one is not.
C16_ExtractAllOrNothing ==
  etc_grid.result.op \in {"step_extract", "deltas_extract"} =>
    /\ etc_grid.pc = "done"
    /\ etc_grid.result.value = AllOrNothing(etc_grid.g, etc_grid.result)

\* C16, on the grids of lines * columns items only.
C16_AllOrNothingOnFullGrids ==
  /\ etc_grid.result.op \in {"step_extract", "deltas_extract"}
  /\ Len(etc_grid.g.items) = etc_grid.g.lines * etc_grid.g.columns
  => /\ etc_grid.pc = "done"
     /\ etc_grid.result.value = AllOrNothing(etc_grid.g, etc_grid.result)

\* deltas_extract has given None for three positions of which the last alone
\* is outside the grid.
C16_LastPositionOutside ==
  LET r == etc_grid.result
      g == etc_grid.g
  IN /\ etc_grid.pc = "done"
     /\ r.op = "deltas_extract"
     /\ Len(g.items) = g.lines * g.columns
     /\ Len(r.arg[2]) = 3
     /\ InsideGrid(g, r.arg[1], r.arg[2][1])
     /\ InsideGrid(g, r.arg[1], r.arg[2][2])
     /\ ~InsideGrid(g, r.arg[1], r.arg[2][3])
     /\ r.value = None

\* C17: unchecked_index and unchecked_get return only for a position of the
\* grid; with any other they panic.
C17_UncheckedFailsLoudly ==
  /\ etc_grid.pc = "done"
  /\ etc_grid.result.op \in {"unchecked_index", "unchecked_get"}
  => valid_position(etc_grid.g, etc_grid.result.arg)

(***************************************************************************)
(* days/day16.rs: the end that no path reaches                             *)
(***************************************************************************)
\* C18: when no path leads from the start to the end cell,
\* compute_least_distances returns (with a result that tells so) and does not
\* abort.
C18_NoPathIsReturned ==
  /\ Computed16
  /\ MinCost(day16.map, day16.end,
             CostsFrom(day16.map, day16.start, day16.end)) = Infinity(day16.map)
  => day16.pc # "no path found"

\* The costs recorded in next, where map records one, are not above those of
\* map (above is TRUE) or not below them (above is FALSE).
CostsMove(map, next, above) ==
  \A i \in DOMAIN map.items :
    map.items[i].tag = "Reached" =>
      /\ next.items[i].tag = "Reached"
      /\ IF above THEN next.items[i].points >= map.items[i].points
         ELSE next.items[i].points <= map.items[i].points

\* C20 as stated: the cost that dfs has recorded for a cell never decreases
\* as the search proceeds.
C20_CostNeverDecreases ==
  [][day16.pc = "dfs" => CostsMove(day16.map, day16'.map, TRUE)]_vars

\* C20 as the code has it: the cost that dfs has recorded for a cell never
\* increases as the search proceeds, and the cell stays Reached.
C20_CostNeverIncreases ==
  [][day16.pc = "dfs" => CostsMove(day16.map, day16'.map, FALSE)]_vars

\* dfs has overwritten the cost of a Reached cell.
C20_CostOverwritten == day16.relaxed

(***************************************************************************)
(* days/day06.rs: the trials of solve_part2                                *)
(***************************************************************************)
\* C19: in solve_part2 of both patrols, at the start of every trial and after
\* the last the map is the map that prepare returned, whatever the verdicts
\* of the trials before.
C19_MapRestoredAfterEachTrial ==
  day06.pc \in {"filter", "done"} => day06.map = day06.prepared

\* solve_part2 has returned after trials of both verdicts, on cells that the
\* first patrol had found Empty.
C19_TrialsOfBothVerdicts ==
  /\ day06.pc = "done"
  /\ \E i, j \in DOMAIN day06.loops : day06.loops[i] /\ ~day06.loops[j]
  /\ \A i \in DOMAIN day06.positions :
       day06.prepared.items[day06.positions[i] + 1] = Empty

(***************************************************************************)
(* etc/grid.rs: the rotations of a Point                                   *)
(***************************************************************************)
\* The two compositions that the rotation laws are about.
LawCalls ==
  { <<"rotate_90_clockwise", "rotate_90_clockwise",
      "rotate_90_clockwise", "rotate_90_clockwise">>,
    <<"rotate_90_counterclockwise", "rotate_90_clockwise">> }

\* C21: for every Point d, four calls of rotate_90_clockwise give d, and
\* rotate_90_clockwise after rotate_90_counterclockwise gives d: none of the
\* calls fails, and the last returns d.
C21_RotationLaws ==
  \A calls \in LawCalls :
    /\ etc_grid.called = SubSeq(calls, 1, Len(etc_grid.called))
         => etc_grid.pc = "ready"
    /\ etc_grid.called = calls => etc_grid.point = etc_grid.d

\* C21 where no call overflows (the build wraps, or no component negated is
\* isize::MIN).
C21_RotationLawsWhereReturned ==
  etc_grid.pc = "ready" /\ etc_grid.called \in LawCalls
    => etc_grid.point = etc_grid.d

\* The four directions and what the tests of grid.rs expect of them.
Clockwise == (NORTH :> EAST) @@ (EAST :> SOUTH) @@ (SOUTH :> WEST) @@ (WEST :> NORTH)
Opposite == (NORTH :> SOUTH) @@ (EAST :> WEST) @@ (SOUTH :> NORTH) @@ (WEST :> EAST)

\* value is what the negation of the isize returns when it returns.
IsNegationOf(value, of) ==
  value + of = 0 \/ (value = IsizeMin /\ of = IsizeMin)

\* C22: rotate_90_clockwise returns (dc, -dr) for (dr, dc), and so EAST for
\* NORTH, SOUTH for EAST, WEST for SOUTH and NORTH for WEST; rotate_180
\* returns (-dr, -dc), and so swaps NORTH with SOUTH and EAST with WEST.  On
\* the four directions neither fails.
C22_RotationsOfComponents ==
  LET d == etc_grid.d
      r == etc_grid.point
  IN /\ etc_grid.called = <<"rotate_90_clockwise">> =>
          /\ etc_grid.pc = "ready" =>
               r[1] = d[2] /\ IsNegationOf(r[2], d[1])
          /\ d \in DOMAIN Clockwise =>
               etc_grid.pc = "ready" /\ r = Clockwise[d]
     /\ etc_grid.called = <<"rotate_180">> =>
          /\ etc_grid.pc = "ready" =>
               IsNegationOf(r[1], d[1]) /\ IsNegationOf(r[2], d[2])
          /\ d \in DOMAIN Opposite =>
               etc_grid.pc = "ready" /\ r = Opposite[d]

\* rotate_90_clockwise has returned EAST for NORTH.
C22_NorthTurnedEast ==
  /\ etc_grid.pc = "ready"
  /\ etc_grid.called = <<"rotate_90_clockwise">>
  /\ etc_grid.d = NORTH
  /\ etc_grid.point = EAST

(***************************************************************************)
(* etc/grid.rs: for_each_neighbour                                         *)
(***************************************************************************)
\* The subsequence of the members of a sequence that are in a set.
RECURSIVE Keep(_, _)
Keep(seq, members) ==
  IF seq = << >> THEN << >>
  ELSE (IF Head(seq) \in members THEN <<Head(seq)>> ELSE << >>)
         \o Keep(Tail(seq), members)

\* The calls that for_each_neighbour is to make: one for each of NORTH, EAST,
\* SOUTH and WEST, in this order, whose neighbour is inside the grid, with the
\* position of the neighbour and the item there.
NeighbourCalls(g, origin) ==
  LET inside == Keep(<<NORTH, EAST, SOUTH, WEST>>,
                     {delta \in {NORTH, EAST, SOUTH, WEST} :
                        InsideGrid(g, origin, delta)})
  IN [k \in DOMAIN inside |->
        <<PointAdd(origin, inside[k]),
          g.items[g.columns * (origin[1] + inside[k][1])
                  + origin[2] + inside[k][2] + 1]>>]

\* C23: for_each_neighbour calls f once for each of NORTH, EAST, SOUTH and
\* WEST whose neighbour is inside the grid, in this order, with the position
\* of the neighbour and the item there, and for no other position.
C23_NeighboursVisitedInOrder ==
  etc_grid.result.op = "for_each_neighbour" =>
    /\ etc_grid.pc = "done"
    /\ etc_grid.result.value = NeighbourCalls(etc_grid.g, etc_grid.result.arg)

\* C23, on the grids of lines * columns items only.
C23_NeighboursOnFullGrids ==
  /\ etc_grid.result.op = "for_each_neighbour"
  /\ Len(etc_grid.g.items) = etc_grid.g.lines * etc_grid.g.columns
  => /\ etc_grid.pc = "done"
     /\ etc_grid.result.value = NeighbourCalls(etc_grid.g, etc_grid.result.arg)

(***************************************************************************)
(* days/day06.rs: the two patrols                                          *)
(***************************************************************************)
\* What a patrol returned: the positions visited (those of the BTreeSet of
\* slow; those of the indices with a flag set of fast) and the verdict.
Returned06(s) ==
  [positions |-> IF s.impl = "fast"
                 THEN {unchecked_position(s.map, i - 1) :
                         i \in {j \in DOMAIN s.patrolled :
                                  \E did \in 1 .. 4 : s.patrolled[j][did]}}
                 ELSE s.locations,
   is_loop |-> s.is_loop]

\* The patrols of both modules return the same on a map.
SamePatrol(map, guard) ==
  Returned06(patrol(PatrolStart("fast", map, guard)))
    = Returned06(patrol(PatrolStart("slow", map, guard)))

\* The module that the run is not of.
OtherImpl == IF day06.impl = "fast" THEN "slow" ELSE "fast"

\* C24: on the map of solve_part2 and on the map of each of its trials, the
\* patrols of slow and of fast return the same positions and the same
\* verdict, so solve_part1 returns the same number in both modules, and
\* solve_part2 tries the same positions, with the same verdicts and the same
\* count.
C24_SlowAndFastAgree ==
  day06.pc = "done" =>
    /\ SamePatrol(day06.prepared, day06.guard)
    /\ day06.positions
         = trial_positions(OtherImpl, day06.prepared, day06.guard)
    /\ \A i \in DOMAIN day06.positions :
         LET blocked == place(OtherImpl, day06.prepared, day06.positions[i],
                              Obstruction)
         IN /\ SamePatrol(blocked, day06.guard)
            /\ day06.loops[i]
                 = patrol(PatrolStart(OtherImpl, blocked, day06.guard)).is_loop
    /\ day06.count = Cardinality({i \in DOMAIN day06.loops : day06.loops[i]})

\* solve_part2 of slow has returned a count that is neither zero nor the
\* number of its trials, after a first patrol that turned.
C24_SlowCountedSomeLoops ==
  /\ day06.pc = "done"
  /\ day06.impl = "slow"
  /\ 0 < day06.count
  /\ day06.count < Len(day06.positions)
  /\ patrol(PatrolStart("slow", day06.prepared, day06.guard)).direction # NORTH

\* C25: in each tick of a patrol (an iteration that does not return at its
\* test for a loop) with the cell ahead inside the grid, the guard turns 90
\* degrees clockwise where it stands if the cell is an Obstruction, and else
\* moves to the cell with its direction unchanged; no step of a patrol
\* changes the map.
C25_TickTurnsOrMoves ==
  [][day06.pc = "patrol" =>
       LET ahead == PointAdd(day06.guard, day06.direction)
       IN /\ day06'.map = day06.map
          /\ ~day06'.is_loop /\ ahead \in Positions(day06.map) =>
               IF day06.map.items[day06.map.columns * ahead[1] + ahead[2] + 1]
                    = Obstruction
               THEN /\ day06'.guard = day06.guard
                    /\ day06'.direction = Clockwise[day06.direction]
                    /\ day06'.pc = "patrol"
               ELSE /\ day06'.guard = ahead
                    /\ day06'.direction = day06.direction
                    /\ day06'.pc = "patrol"]_vars

\* The guard has turned from NORTH to EAST where it began, and then moved to
\* the cell to the east.
C25_TurnedThenMoved ==
  /\ day06.pc = "patrol"
  /\ Len(day06.trace) = 2
  /\ day06.trace[1][2] = NORTH
  /\ day06.trace[2] = <<day06.trace[1][1], EAST>>
  /\ day06.direction = EAST
  /\ day06.guard = PointAdd(day06.trace[1][1], EAST)

(***************************************************************************)
(* days/day16.rs: the budget of backward_dfs                               *)
(***************************************************************************)
\* C26: whenever an iteration of the for loop of backward_dfs evaluates
\* remaining_points - cost (the cell at_turn holds Reached), remaining_points
\* is not below cost.
C26_BudgetNeverUnderflows ==
  day16.pc = "solve_part2" /\ day16.stack # << >> =>
    LET it == Head(day16.stack)
    IN get(day16.map, PointAdd(it.at, it.turn_direction)).tag = "Reached"
         => ~U64SubOverflows(it.remaining_points, it.cost)

(***************************************************************************)
(* days/day16.rs: the calls of dfs                                         *)
(***************************************************************************)
\* C27: a call of dfs leaves every Wall a Wall, changes a cell that holds
\* Reached(c) only into Reached(c') with c' < c, and, made with a cost that
\* is not below the one its cell holds, changes no cell and makes no call.
C27_OverwritesOnlyWithLess ==
  [][day16.pc = "dfs" /\ day16.stack # << >> =>
       LET call == Head(day16.stack)
           old == day16.map.items
           new == day16'.map.items
       IN /\ \A i \in DOMAIN old :
               /\ old[i] = Wall => new[i] = Wall
               /\ old[i].tag = "Reached" /\ new[i] # old[i] =>
                    new[i].tag = "Reached" /\ new[i].points < old[i].points
          /\ call.at \in Positions(day16.map) =>
               LET cell == old[day16.map.columns * call.at[1] + call.at[2] + 1]
               IN cell.tag = "Reached" /\ cell.points <= call.accumulated_points
                    => new = old /\ day16'.stack = Tail(day16.stack)]_vars

\* After a cell has been overwritten, in a maze with a Wall, the next call
\* comes to a cell with the very cost that the cell holds.
C27_CallWithEqualCost ==
  /\ day16.pc = "dfs"
  /\ day16.relaxed
  /\ Wall \in {day16.map.items[i] : i \in DOMAIN day16.map.items}
  /\ day16.stack # << >>
  /\ Head(day16.stack).at \in Positions(day16.map)
  /\ get(day16.map, Head(day16.stack).at)
       = Reached(Head(day16.stack).accumulated_points)

\* C28: on every maze dfs returns, and the calls that are pending (those of
\* the for loops of the calls that have not returned: at most two for each
\* cell of the maze, and the three of the last) are never more than that.
C28_DfsTerminates ==
  /\ <>(day16.pc # "dfs")
  /\ [](day16.pc = "dfs" => Len(day16.stack) <= 2 * size(day16.map) + 3)

\* dfs has returned after it had overwritten a cost, with the end reached.
C28_ReturnedAfterOverwriting ==
  /\ day16.pc = "solve_part2"
  /\ day16.relaxed
  /\ day16.best > 0

(***************************************************************************)
(* day15: the chain of boxes in front of the robot, as the set of cells    *)
(* that a push has to make free.                                           *)
(***************************************************************************)
\* The cells that have to be free after the push for the cell p to be freed:
\* the next cell for a Pack or for a half pushed along its line, the cells
\* in front of both halves for a half pushed across it.
Needs(map, d, p) ==
  LET cell == get(map, p)
      left == IF cell = BoxLeft THEN p ELSE PointAdd(p, WEST)
  IN IF cell = Pack THEN {PointAdd(p, d)}
     ELSE IF cell \in {BoxLeft, BoxRight}
     THEN IF d \in {WEST, EAST} THEN {PointAdd(p, d)}
          ELSE {PointAdd(left, d), PointAdd(PointAdd(left, EAST), d)}
     ELSE {}

\* The cells to make free, from a set of them, after at most n rounds.
RECURSIVE ToFree(_, _, _, _)
ToFree(map, d, cells, n) ==
  LET more == cells \cup UNION {Needs(map, d, p) : p \in cells}
  IN IF n = 0 \/ more = cells THEN cells ELSE ToFree(map, d, more, n - 1)

\* The chain in front of the robot can be pushed: none of its cells is a
\* wall or outside the grid.
Pushable(map, d, robot) ==
  \A p \in ToFree(map, d, {PointAdd(robot, d)}, map.lines + map.columns) :
    valid_position(map, p) /\ get(map, p) # Wall

\* C29: try_move is all-or-nothing.  When the chain of boxes in front of the
\* robot cannot be pushed, a wall or the edge of the grid being met anywhere
\* in it, in one half of a wide box included, try_move returns false and
\* every cell of the map and the robot stay as they were; otherwise it
\* returns true and the robot is on the target cell.
C29_TryMoveAllOrNothing ==
  [][(day15.pc = "moves" /\ day15'.pc = "moves") =>
       IF Pushable(day15.map, day15'.direction, day15.robot)
       THEN /\ day15'.returned = "true"
            /\ day15'.robot = PointAdd(day15.robot, day15'.direction)
       ELSE /\ day15'.returned = "false"
            /\ day15'.map = day15.map
            /\ day15'.robot = day15.robot]_vars

\* try_move has returned false on a wide box pushed across its line with a
\* wall in front of its other half only.
C29_OneHalfBlocked ==
  /\ day15.pc = "moves"
  /\ day15.returned = "false"
  /\ day15.direction \in {NORTH, SOUTH}
  /\ LET target == PointAdd(day15.robot, day15.direction)
     IN /\ get(day15.map, target) = BoxLeft
        /\ get(day15.map, PointAdd(target, EAST)) = BoxRight
        /\ get(day15.map, PointAdd(target, day15.direction)) = Free
        /\ get(day15.map, PointAdd(PointAdd(target, EAST), day15.direction)) = Wall

\* What the map holds is what it held at first: as many Pack, BoxLeft and
\* BoxRight cells, a BoxRight east of each BoxLeft, the same Wall cells, and
\* the robot on a Free cell.
Kept ==
  /\ Cardinality(Holding(day15.map, Pack)) = day15.packs
  /\ Cardinality(Holding(day15.map, BoxLeft)) = day15.lefts
  /\ Cardinality(Holding(day15.map, BoxRight)) = day15.rights
  /\ \A p \in Holding(day15.map, BoxLeft) :
       get(day15.map, PointAdd(p, EAST)) = BoxRight
  /\ Holding(day15.map, Wall) = day15.walls
  /\ get(day15.map, day15.robot) = Free

\* C30: from a map in which every BoxLeft has a BoxRight immediately to its
\* east and every BoxRight a BoxLeft immediately to its west, with the robot
\* on a Free cell, after any sequence of calls of try_move the numbers of
\* Pack, BoxLeft and BoxRight cells are unchanged, every BoxLeft has a
\* BoxRight immediately to its east, the Wall cells are unchanged and the
\* robot is on a Free cell.
C30_BoxesAndWallsKept ==
  (day15.pc # "idle" /\ day15.paired) => Kept

\* The same from every map in which every BoxLeft has a BoxRight
\* immediately to its east, a BoxRight without a BoxLeft allowed.
C30_KeptFromAnyMap ==
  day15.pc # "idle" => Kept

\* The moves of the second example are done: the wide boxes have been pushed
\* along and across their lines and their coordinates sum to 618.
C30_WideBoxesPushed ==
  /\ day15.pc = "done"
  /\ day15.paired
  /\ day15.lefts = 3
  /\ day15.score = 618

====
